---- MODULE Spec2Model ----
(***************************************************************************)
(* A model of simple_printf_v7.c: the format interpreter printf_core, its  *)
(* parser (parse_flags, parse_width, parse_prec, parse_length), the        *)
(* conversions, the integer renderer convert_integer_to_string, the field  *)
(* formatter print_converted_string and the two output sinks behind        *)
(* simple_printf (a stream) and simple_snprintf (a bounded buffer).        *)
(*                                                                         *)
(* Characters are one-character strings; NUL is the string terminator.     *)
(* Pointers into the format are 0-based offsets, as in the C code.         *)
(* A uintmax_t is a 64-bit word, held as four 16-bit limbs, most           *)
(* significant first, so that every operation keeps its C width.           *)
(***************************************************************************)
EXTENDS Integers, Sequences, FiniteSets, TLC

VARIABLES
  fmt,          \* the format string of the call, without its terminator
  after,        \* the bytes that happen to lie in memory after the terminator
  args,         \* the variable arguments of the call
  cap,          \* the capacity the caller gives simple_snprintf
  todo,         \* the calls main still has to make
  pc,           \* position in the running call
  p,            \* struct printer: kind, max, total
  stdout,       \* what has been written to the stream
  buf,          \* the caller's buffer (cells at and beyond cap are not the caller's)
  wrote,        \* indices of buf written by simple_snprintf
  curr_fmt,     \* printf_core: scan cursor
  prev_fmt,     \* printf_core: start of the batched literal run
  conv_fmt,     \* printf_core: the '%' of the specifier being parsed
  conv,         \* struct conv of the specifier being parsed
  ap,           \* va_list: number of arguments fetched so far
  stored,       \* what %n stored, in order: <<pointee, value>>
  ret,          \* the values the calls returned: [printf, snprintf], <<>> before
  fetched,      \* the fetches made from the argument list by the running call
  last,         \* the step just taken and the state it started from
  given         \* how the call's format was written, for formats of one specifier

vars == <<fmt, after, args, cap, todo, pc, p, stdout, buf, wrote, curr_fmt,
          prev_fmt, conv_fmt, conv, ap, stored, ret, fetched, last, given>>

----------------------------------------------------------------------------
(* Bounds of the model. *)
MaxCap == 7          \* capacities 0..MaxCap are given to simple_snprintf
MaxWidth == 48       \* widths 1..MaxWidth are tried for zero-padded fields
MaxPrec == 3         \* precisions 0..MaxPrec are tried as digits
MaxStar == 6         \* widths 0..MaxStar are given through '*'
MaxOver == 2         \* widths and precisions up to INT_BUF_SIZE + MaxOver
MaxRun == 3          \* runs of 0..2*MaxRun percent signs are tried

(* Program constants. *)
INT_BUF_SIZE == 48
CHAR_BIT == 8

kLengthChar == -2
kLengthShort == -1
kLengthDefault == 0
kLengthLong == 1
kLengthLongLong == 2
kLengthIntMaxT == 3
kLengthSizeT == 4
kLengthPtrDiffT == 5
kLengthVoidP == 6

kSignDefault == 0
kSignAlways == 1
kSignSpace == 2

NUL == "NUL"

Min(a, b) == IF a < b THEN a ELSE b
Max(a, b) == IF a > b THEN a ELSE b

----------------------------------------------------------------------------
(* 64-bit words: <<l3, l2, l1, l0>>, 16 bits each. *)
LIMB == 2 ^ 16

WZero == <<0, 0, 0, 0>>

\* The word of a C int given as a mathematical integer in [-2^31, 2^31):
\* conversion of int to uintmax_t sign-extends.
WordOfInt(i) ==
  LET hi == IF i < 0 THEN LIMB - 1 ELSE 0
  IN  <<hi, hi, (i \div LIMB) % LIMB, i % LIMB>>

\* The mathematical value of the low 32 bits read as a C int.
IntOfWord(w) ==
  IF w[3] >= LIMB \div 2 THEN (w[3] - LIMB) * LIMB + w[4] ELSE w[3] * LIMB + w[4]

IsZero(w) == w = WZero

\* value & SIGN_BIT
SignBitSet(w) == w[1] >= LIMB \div 2

\* The complement of every bit, without the 1 that two's complement adds.
Negate_complement(w) ==
  <<LIMB - 1 - w[1], LIMB - 1 - w[2], LIMB - 1 - w[3], LIMB - 1 - w[4]>>

\* value = -value on uintmax_t: two's complement, wrapping.
Negate(w) ==
  LET c4 == (LIMB - 1 - w[4]) + 1
      c3 == (LIMB - 1 - w[3]) + (c4 \div LIMB)
      c2 == (LIMB - 1 - w[2]) + (c3 \div LIMB)
      c1 == (LIMB - 1 - w[1]) + (c2 \div LIMB)
  IN  <<c1 % LIMB, c2 % LIMB, c3 % LIMB, c4 % LIMB>>

\* value % base and value / base on uintmax_t, by long division over the limbs.
DivMod(w, base) ==
  LET n1 == w[1]
      n2 == (n1 % base) * LIMB + w[2]
      n3 == (n2 % base) * LIMB + w[3]
      n4 == (n3 % base) * LIMB + w[4]
  IN  [q |-> <<n1 \div base, n2 \div base, n3 \div base, n4 \div base>>,
       r |-> n4 % base]

\* Casts applied to the int fetched by va_arg, then converted to uintmax_t.
CastSignedChar(w) ==
  LET b == w[4] % (2 ^ CHAR_BIT)
  IN  IF b >= 2 ^ (CHAR_BIT - 1)
        THEN <<LIMB - 1, LIMB - 1, LIMB - 1, LIMB - 2 ^ CHAR_BIT + b>>
        ELSE <<0, 0, 0, b>>
CastSignedShort(w) ==
  IF w[4] >= LIMB \div 2 THEN <<LIMB - 1, LIMB - 1, LIMB - 1, w[4]>>
                         ELSE <<0, 0, 0, w[4]>>
CastSignedInt(w) ==
  IF w[3] >= LIMB \div 2 THEN <<LIMB - 1, LIMB - 1, w[3], w[4]>>
                         ELSE <<0, 0, w[3], w[4]>>
\* A cast to unsigned char that goes through a signed char.
CastUnsignedChar_signed(w) == CastSignedChar(w)

CastUnsignedChar(w) == <<0, 0, 0, w[4] % (2 ^ CHAR_BIT)>>
CastUnsignedShort(w) == <<0, 0, 0, w[4]>>
CastUnsigned(w) == <<0, 0, w[3], w[4]>>

\* Conversion of an int to short (the descriptor's width and prec fields):
\* reduced modulo 2^16 into [-2^15, 2^15).
ToShort(i) == ((i + LIMB \div 2) % LIMB) - LIMB \div 2

----------------------------------------------------------------------------
(* Characters. *)
Digits == <<"0", "1", "2", "3", "4", "5", "6", "7", "8", "9">>
isdigit(ch) == \E i \in 1..10 : Digits[i] = ch
DigitValue(ch) == (CHOOSE i \in 1..10 : Digits[i] = ch) - 1

hex_digits(is_caps) ==
  IF is_caps
    THEN <<"0","1","2","3","4","5","6","7","8","9","A","B","C","D","E","F">>
    ELSE <<"0","1","2","3","4","5","6","7","8","9","a","b","c","d","e","f">>

Repeat(c, n) == [i \in 1..n |-> c]

----------------------------------------------------------------------------
(* The format in memory: its characters, the terminator, then whatever     *)
(* follows it.  Offsets at or beyond Len(mem) are not mapped.              *)
mem == fmt \o <<NUL>> \o after
term_fmt == Len(fmt)
Mapped(i) == i >= 0 /\ i < Len(mem)
At(i) == IF Mapped(i) THEN mem[i + 1] ELSE "?"
Text(from, to) == [i \in 1..(to - from) |-> At(from + i - 1)]

\* memchr(from, '%', term_fmt - from): [st, at], st one of "found", "null",
\* "fault".  The length is a size_t: when from is past the terminator it wraps
\* to a huge count and the search runs on through whatever is mapped, to the
\* first '%' or to a fault.
memchr_percent(from) ==
  LET last_i == IF from <= term_fmt THEN term_fmt - 1 ELSE Len(mem) - 1
      hits   == {i \in from..last_i : At(i) = "%"}
  IN  IF hits # {}
        THEN [st |-> "found", at |-> CHOOSE i \in hits : \A j \in hits : i <= j]
        ELSE [st |-> IF from <= term_fmt THEN "null" ELSE "fault", at |-> from]

----------------------------------------------------------------------------
(* The output sinks.  A sink state sk is [p, stdout, buf, wrote].          *)

\* printer_file_copy
printer_file_copy(sk, s) ==
  [sk EXCEPT !.p.total = @ + Len(s), !.stdout = @ \o s]

\* printer_file_fill
printer_file_fill(sk, c, len) ==
  [sk EXCEPT !.p.total = @ + len, !.stdout = @ \o Repeat(c, len)]

\* A putc that writes its character and does not count it.
printer_file_putc_uncounted(sk, c) ==
  [sk EXCEPT !.stdout = @ \o <<c>>]

\* printer_file_putc
printer_file_putc(sk, c) ==
  [sk EXCEPT !.p.total = @ + 1, !.stdout = @ \o <<c>>]

\* memcpy(buf + target, s, len) / memset: cells target .. target+len-1
Store(sk, target, s, len) ==
  [sk EXCEPT !.buf = [i \in DOMAIN @ |->
                        IF i >= target /\ i < target + len
                          THEN s[i - target + 1] ELSE @[i]],
             !.wrote = @ \cup (target..(target + len - 1))]

\* A bounded copy that stops counting once the buffer is full.
printer_buf_copy_full(sk, s) ==
  IF sk.p.total >= sk.p.max
    THEN sk
    ELSE LET avail  == sk.p.max - sk.p.total
             target == sk.p.total
             len    == IF Len(s) > avail THEN avail ELSE Len(s)
         IN  Store([sk EXCEPT !.p.total = @ + len], target, s, len)

\* printer_buf_copy
printer_buf_copy(sk, s) ==
  IF sk.p.total >= sk.p.max
    THEN [sk EXCEPT !.p.total = @ + Len(s)]
    ELSE LET avail  == sk.p.max - sk.p.total
             target == sk.p.total
             len    == IF Len(s) > avail THEN avail ELSE Len(s)
         IN  Store([sk EXCEPT !.p.total = @ + Len(s)], target, s, len)

\* printer_buf_fill
printer_buf_fill(sk, c, n) ==
  IF sk.p.total >= sk.p.max
    THEN [sk EXCEPT !.p.total = @ + n]
    ELSE LET avail  == sk.p.max - sk.p.total
             target == sk.p.total
             len    == IF n > avail THEN avail ELSE n
         IN  Store([sk EXCEPT !.p.total = @ + n], target, Repeat(c, len), len)

\* printer_buf_putc
printer_buf_putc(sk, c) ==
  IF sk.p.total >= sk.p.max
    THEN [sk EXCEPT !.p.total = @ + 1]
    ELSE Store([sk EXCEPT !.p.total = @ + 1], sk.p.total, <<c>>, 1)

\* p->copy, p->fill, p->putc: the function pointers set by the wrapper.
copy(sk, s) ==
  IF sk.p.kind = "file" THEN printer_file_copy(sk, s) ELSE printer_buf_copy(sk, s)
fill(sk, c, len) ==
  IF sk.p.kind = "file" THEN printer_file_fill(sk, c, len)
                        ELSE printer_buf_fill(sk, c, len)
putc(sk, c) ==
  IF sk.p.kind = "file" THEN printer_file_putc(sk, c) ELSE printer_buf_putc(sk, c)

Sink == [p |-> p, stdout |-> stdout, buf |-> buf, wrote |-> wrote]

----------------------------------------------------------------------------
(* Arguments.  An argument is a record with a kind k:                      *)
(*   "int"  an int or unsigned passed in a word-sized slot, w its bits     *)
(*   "wide" a long, long long, intmax_t, size_t or ptrdiff_t (64 bits), w  *)
(*   "ptr"  a void *, w its bits                                           *)
(*   "chr"  an int holding the character c                                 *)
(*   "str"  a const char *, s the characters before its terminator         *)
(*   "arr"  a const char * to an array s that holds no terminator, and     *)
(*          rest, the mapped memory that follows the array                 *)
(*   "nptr" a pointer to the integer object id, for %n                     *)
(* The model is of an LP64 build: long, long long, intmax_t, size_t,       *)
(* ptrdiff_t and pointers are 64 bits, int is 32.                          *)
va_arg(a) == args[a + 1]

\* struct conv conv = { .base = 10, .args = &args, .printer = p };
conv_init ==
  [leading_zero |-> FALSE, left_justify |-> FALSE, is_alt |-> FALSE,
   sign |-> kSignDefault, length |-> kLengthDefault,
   explicit_width |-> FALSE, explicit_prec |-> FALSE, width |-> 0, prec |-> 0,
   soft_prec |-> FALSE, is_caps |-> FALSE, is_signed |-> FALSE, base |-> 10,
   type |-> NUL]

\* A descriptor that keeps what the previous specifier left in it, but for
\* the conversion letter.
fresh_conv_kept(prev) == [prev EXCEPT !.type = NUL]

\* The descriptor of a loop iteration: conv is declared and initialised in
\* the loop body, so nothing of the previous iteration's conv is in it.
fresh_conv(prev) == conv_init

\* A parser state ps is [fmt, conv, ap, log, spec]: the cursor, the descriptor,
\* the position in the argument list, the record of the fetches made from it
\* and the offset of the specifier's '%'.  A fetch is [spec, role, idx]: the
\* specifier, what the argument was fetched as, and its index in the list.
Fetched(ps, role, idx) ==
  Append(ps.log, [spec |-> ps.spec, role |-> role, idx |-> idx])

\* parse_flags: the loop over flag characters
RECURSIVE flags_loop(_, _, _)
flags_loop(i, cv, sign_space) ==
  LET ch == At(i) IN
  CASE ch = "0" -> flags_loop(i + 1, [cv EXCEPT !.leading_zero = TRUE], sign_space)
    [] ch = "-" -> flags_loop(i + 1, [cv EXCEPT !.left_justify = TRUE], sign_space)
    [] ch = "+" -> flags_loop(i + 1, [cv EXCEPT !.sign = kSignAlways], sign_space)
    [] ch = "#" -> flags_loop(i + 1, [cv EXCEPT !.is_alt = TRUE], sign_space)
    [] ch = " " -> flags_loop(i + 1, cv, TRUE)
    [] OTHER    -> [fmt |-> i, conv |-> cv, sign_space |-> sign_space]

\* parse_flags
parse_flags(ps) ==
  LET r == flags_loop(ps.fmt, ps.conv, FALSE)
  IN  [ps EXCEPT !.fmt = r.fmt,
                 !.conv = IF r.sign_space /\ r.conv.sign = kSignDefault
                            THEN [r.conv EXCEPT !.sign = kSignSpace]
                            ELSE r.conv]

\* while (isdigit(ch)) { n = n * 10 + (ch - '0'); ch = *++fmt; }
RECURSIVE digits_loop(_, _)
digits_loop(i, n) ==
  IF isdigit(At(i)) THEN digits_loop(i + 1, n * 10 + DigitValue(At(i)))
                    ELSE [fmt |-> i, n |-> n]

\* A parse_width that takes the absolute value of a negative '*' argument
\* and leaves the justification alone.
parse_width_abs(ps) ==
  IF At(ps.fmt) = "*"
    THEN [ps EXCEPT
            !.fmt  = @ + 1,
            !.ap   = @ + 1,
            !.log  = Fetched(ps, "width", ps.ap),
            !.conv = [ps.conv EXCEPT
                      !.explicit_width = TRUE,
                      !.width = ToShort(IF IntOfWord(va_arg(ps.ap).w) < 0
                                          THEN -IntOfWord(va_arg(ps.ap).w)
                                          ELSE IntOfWord(va_arg(ps.ap).w))]]
    ELSE [ps EXCEPT
            !.fmt  = digits_loop(ps.fmt, 0).fmt,
            !.conv = [ps.conv EXCEPT
                      !.explicit_width = isdigit(At(ps.fmt)),
                      !.width = ToShort(digits_loop(ps.fmt, 0).n)]]

\* A parse_width whose '*' takes the argument after the next one, when there
\* is one.
parse_width_skip(ps) ==
  IF At(ps.fmt) = "*" /\ ps.ap + 2 <= Len(args)
    THEN [ps EXCEPT
            !.fmt  = @ + 1,
            !.ap   = @ + 1,
            !.log  = Fetched(ps, "width", ps.ap + 1),
            !.conv = [ps.conv EXCEPT
                      !.explicit_width = TRUE,
                      !.width = ToShort(IntOfWord(va_arg(ps.ap + 1).w))]]
    ELSE [ps EXCEPT !.fmt = digits_loop(ps.fmt, 0).fmt]

\* parse_width
parse_width(ps) ==
  IF At(ps.fmt) = "*"
    THEN LET width == IntOfWord(va_arg(ps.ap).w)
         IN  [ps EXCEPT
                !.fmt  = @ + 1,
                !.ap   = @ + 1,
                !.log  = Fetched(ps, "width", ps.ap),
                !.conv = [ps.conv EXCEPT
                          !.explicit_width = TRUE,
                          !.left_justify = IF width < 0 THEN TRUE ELSE @,
                          !.width = ToShort(IF width < 0 THEN -width ELSE width)]]
    ELSE LET r == digits_loop(ps.fmt, 0)
         IN  [ps EXCEPT
                !.fmt  = r.fmt,
                !.conv = [ps.conv EXCEPT !.explicit_width = isdigit(At(ps.fmt)),
                                         !.width = ToShort(r.n)]]

\* A parse_prec for which a negative '*' argument means that no precision
\* was given.
parse_prec_omitted(ps) ==
  IF At(ps.fmt) = "."
    THEN IF At(ps.fmt + 1) = "*"
           THEN LET prec == IntOfWord(va_arg(ps.ap).w)
                IN  [ps EXCEPT
                       !.fmt  = @ + 2,
                       !.ap   = @ + 1,
                       !.log  = Fetched(ps, "prec", ps.ap),
                       !.conv = [ps.conv EXCEPT
                                 !.explicit_prec = (prec >= 0),
                                 !.prec = ToShort(IF prec < 0 THEN 0 ELSE prec)]]
           ELSE LET r == digits_loop(ps.fmt + 1, 0)
                IN  [ps EXCEPT
                       !.fmt  = r.fmt,
                       !.conv = [ps.conv EXCEPT !.explicit_prec = TRUE,
                                                !.prec = ToShort(r.n)]]
    ELSE [ps EXCEPT !.conv.prec = 0]

\* parse_prec
parse_prec(ps) ==
  IF At(ps.fmt) = "."
    THEN IF At(ps.fmt + 1) = "*"
           THEN LET prec == IntOfWord(va_arg(ps.ap).w)
                IN  [ps EXCEPT
                       !.fmt  = @ + 2,
                       !.ap   = @ + 1,
                       !.log  = Fetched(ps, "prec", ps.ap),
                       !.conv = [ps.conv EXCEPT
                                 !.explicit_prec = TRUE,
                                 !.prec = ToShort(IF prec < 0 THEN 0 ELSE prec)]]
           ELSE LET r == digits_loop(ps.fmt + 1, 0)
                IN  [ps EXCEPT
                       !.fmt  = r.fmt,
                       !.conv = [ps.conv EXCEPT !.explicit_prec = TRUE,
                                                !.prec = ToShort(r.n)]]
    ELSE [ps EXCEPT !.conv.prec = 0]

\* parse_length.  PACK_CHAR_(a, b) is a's character code with bit 8 set when
\* a = b, so a case label PACK_CHAR_('h', ' ') matches 'h' followed by anything
\* but 'h', and PACK_CHAR_('h', 'h') matches "hh".
parse_length(ps) ==
  LET ch1 == At(ps.fmt)
      ch2 == At(ps.fmt + 1)
      same == (ch1 = ch2)
      sel ==
        CASE ch1 = "h" /\ same  -> [length |-> kLengthChar,     by |-> 2]
          [] ch1 = "h" /\ ~same -> [length |-> kLengthShort,    by |-> 1]
          [] ch1 = "l" /\ ~same -> [length |-> kLengthLong,     by |-> 1]
          [] ch1 = "l" /\ same  -> [length |-> kLengthLongLong, by |-> 2]
          [] ch1 = "j" /\ ~same -> [length |-> kLengthIntMaxT,  by |-> 1]
          [] ch1 = "z" /\ ~same -> [length |-> kLengthSizeT,    by |-> 1]
          [] ch1 = "t" /\ ~same -> [length |-> kLengthPtrDiffT, by |-> 1]
          [] ch1 = "p" /\ ~same -> [length |-> kLengthVoidP,    by |-> 0]
          [] OTHER              -> [length |-> kLengthDefault,  by |-> 0]
  IN  [ps EXCEPT !.fmt = @ + sel.by, !.conv.length = sel.length]

----------------------------------------------------------------------------
(* Conversions.  A conversion state cs is the parser state extended with   *)
(* the sink state sk and the objects stored through %n.                    *)

\* get_signed_integer, applied to the argument fetched
get_signed_integer(cv, a) ==
  CASE cv.length = kLengthChar     -> CastSignedChar(a.w)
    [] cv.length = kLengthShort    -> CastSignedShort(a.w)
    [] cv.length = kLengthDefault  -> CastSignedInt(a.w)
    [] cv.length = kLengthLong     -> a.w
    [] cv.length = kLengthLongLong -> a.w
    [] cv.length = kLengthIntMaxT  -> a.w
    [] cv.length = kLengthSizeT    -> a.w
    [] cv.length = kLengthPtrDiffT -> a.w
    [] cv.length = kLengthVoidP    -> a.w
    [] OTHER                       -> CastSignedInt(a.w)

\* get_unsigned_integer, applied to the argument fetched
get_unsigned_integer(cv, a) ==
  CASE cv.length = kLengthChar     -> CastUnsignedChar(a.w)
    [] cv.length = kLengthShort    -> CastUnsignedShort(a.w)
    [] cv.length = kLengthDefault  -> CastUnsigned(a.w)
    [] cv.length = kLengthLong     -> a.w
    [] cv.length = kLengthLongLong -> a.w
    [] cv.length = kLengthIntMaxT  -> a.w
    [] cv.length = kLengthSizeT    -> a.w
    [] cv.length = kLengthPtrDiffT -> a.w
    [] cv.length = kLengthVoidP    -> a.w
    [] OTHER                       -> CastUnsigned(a.w)

\* The scratch buffer is written from its end: r is [idx, txt], txt the
\* characters of buf[idx .. INT_BUF_SIZE-2]; buf[--idx] = c is Push(r, c).
Push(r, c) == [idx |-> r.idx - 1, txt |-> <<c>> \o r.txt]

\* do { buf[--idx] = hd[value % base]; value /= base; } while (value > 0);
\* dm is [q, r]: value / base and value % base.
RECURSIVE digit_loop(_, _, _, _)
digit_step(dm, base, hd, r) ==
  IF IsZero(dm.q) THEN Push(r, hd[dm.r + 1])
                  ELSE digit_loop(dm.q, base, hd, Push(r, hd[dm.r + 1]))
digit_loop(value, base, hd, r) == digit_step(DivMod(value, base), base, hd, r)

\* while (idx >= prec_idx) { buf[--idx] = '0'; }
RECURSIVE zero_loop(_, _)
zero_loop(r, prec_idx) ==
  IF r.idx >= prec_idx THEN zero_loop(Push(r, "0"), prec_idx) ELSE r

\* The sign character chosen by convert_integer_to_string ("" for none).
sign_char_of(value, cv) ==
  IF cv.is_signed
    THEN CASE SignBitSet(value)        -> "-"
           [] cv.sign = kSignAlways    -> "+"
           [] cv.sign = kSignSpace     -> " "
           [] OTHER                    -> ""
    ELSE ""

\* A soft precision that the sign does not eat into.
soft_prec_unsigned(cv, sign_char, first_digit) ==
  IF cv.soft_prec
    THEN Max(1, cv.prec
                - (IF cv.is_alt /\ cv.base = 16 THEN 2 ELSE 0)
                - (IF cv.is_alt /\ cv.base = 8 /\ first_digit # "0" THEN 1 ELSE 0))
    ELSE cv.prec

\* The precision after the soft-precision adjustment.
soft_prec_adjust(cv, sign_char, first_digit) ==
  IF cv.soft_prec
    THEN Max(1, cv.prec
                - (IF cv.is_alt /\ cv.base = 16 THEN 2 ELSE 0)
                - (IF cv.is_alt /\ cv.base = 8 /\ first_digit # "0" THEN 1 ELSE 0)
                - (IF sign_char # "" THEN 1 ELSE 0))
    ELSE cv.prec

\* An index for the padding zeros that leaves no room for a prefix or a sign.
prec_index_no_room(cv, prec, sign_char) ==
  IF prec < INT_BUF_SIZE - 1 THEN INT_BUF_SIZE - prec ELSE 1

\* The index the padding zeros run out to.
prec_index(cv, prec, sign_char) ==
  Max(IF prec < INT_BUF_SIZE - 1 THEN INT_BUF_SIZE - prec ELSE 1,
      CASE cv.is_alt /\ cv.base = 16 -> 3
        [] cv.is_alt /\ cv.base = 8  -> 2
        [] sign_char # ""            -> 2
        [] OTHER                     -> 1)

\* A hex prefix added only to a text that has a nonzero digit.
add_prefix_nonzero(cv, r) ==
  CASE cv.is_alt /\ cv.base = 8 /\ Head(r.txt) # "0" -> Push(r, "0")
    [] cv.is_alt /\ cv.base = 16 /\ (\E i \in 1..Len(r.txt) : r.txt[i] # "0") ->
         Push(Push(r, IF cv.is_caps THEN "X" ELSE "x"), "0")
    [] OTHER -> r

\* If we're alternate-form octal, add a leading 0 if needed; if we're
\* alternate-form hex, add a leading "0x" or "0X".
add_prefix(cv, r) ==
  CASE cv.is_alt /\ cv.base = 8 /\ Head(r.txt) # "0" -> Push(r, "0")
    [] cv.is_alt /\ cv.base = 16 ->
         Push(Push(r, IF cv.is_caps THEN "X" ELSE "x"), "0")
    [] OTHER -> r

\* Add the sign character, if any.
add_sign(sign_char, r) == IF sign_char # "" THEN Push(r, sign_char) ELSE r

\* convert_integer_to_string from the digits on: r holds the digits.
pad_and_prefix(cv, sign_char, r) ==
  add_sign(sign_char,
    add_prefix(cv,
      zero_loop(r, prec_index(cv, soft_prec_adjust(cv, sign_char, Head(r.txt)),
                              sign_char))))

\* convert_integer_to_string once the sign is known.
render(value, cv, sign_char) ==
  pad_and_prefix(cv, sign_char,
    digit_loop(IF sign_char = "-" THEN Negate(value) ELSE value, cv.base,
               hex_digits(cv.is_caps),
               [idx |-> INT_BUF_SIZE - 1, txt |-> <<>>]))

\* A renderer with no empty text: a zero always has its digit.
convert_integer_to_string_digit(value, cv) ==
  render(value, cv, sign_char_of(value, cv))

\* convert_integer_to_string: [idx, txt]
convert_integer_to_string(value, cv) ==
  IF IsZero(value) /\ cv.prec = 0 /\ ~(cv.is_alt /\ cv.base = 8)
    THEN [idx |-> INT_BUF_SIZE - 1, txt |-> <<>>]
    ELSE render(value, cv, sign_char_of(value, cv))

\* print_converted_string, given fill_count
justify(sk, left_justify, fill_count, text) ==
  IF fill_count = 0 THEN copy(sk, text)
  ELSE IF left_justify THEN fill(copy(sk, text), " ", fill_count)
                       ELSE copy(fill(sk, " ", fill_count), text)

\* A field that is filled with zeros under the '0' flag.
print_converted_string_zeros(cs, str, str_len) ==
  [cs EXCEPT
     !.sk = IF cs.conv.leading_zero /\ ~cs.conv.left_justify
              THEN copy(fill(@, "0", Max(cs.conv.width - str_len, 0)),
                        SubSeq(str, 1, str_len))
              ELSE justify(@, cs.conv.left_justify,
                           Max(cs.conv.width - str_len, 0),
                           SubSeq(str, 1, str_len)),
     !.ok = TRUE]

\* print_converted_string
print_converted_string(cs, str, str_len) ==
  [cs EXCEPT
     !.sk = justify(@, cs.conv.left_justify,
                    IF cs.conv.width > str_len THEN cs.conv.width - str_len
                                               ELSE 0,
                    SubSeq(str, 1, str_len)),
     !.ok = TRUE]

\* The conversion's own argument is fetched.
fetch_value(cs) ==
  [cs EXCEPT !.ap = @ + 1, !.log = Fetched(cs, "value", cs.ap)]

\* print_char_conversion
print_char_conversion(cs) ==
  IF cs.conv.length # kLengthDefault
    THEN [cs EXCEPT !.ok = FALSE]
    ELSE print_converted_string(fetch_value(cs), <<va_arg(cs.ap).c>>, 1)

\* memchr(str, '\0', max_len) and the length taken from it; max_len is a
\* size_t, so a negative prec converts to a huge count.
string_length(cv, s) ==
  IF cv.explicit_prec /\ cv.prec >= 0 /\ cv.prec <= Len(s) THEN cv.prec ELSE Len(s)

\* The offset of the first terminator in the memory m, Len(m) if it has none.
NulAt(m) ==
  IF \E i \in 1..Len(m) : m[i] = NUL
    THEN (CHOOSE i \in 1..Len(m) : m[i] = NUL /\ \A j \in 1..(i - 1) : m[j] # NUL) - 1
    ELSE Len(m)

\* memchr(str, '\0', max_len) stops within the first max_len characters of
\* the memory m, at a terminator or at the count.
array_bounded(cv, m) == cv.explicit_prec /\ cv.prec >= 0 /\ cv.prec <= NulAt(m)

\* The number of characters memchr(str, '\0', max_len) reads of the memory m.
array_read(cv, m) == IF array_bounded(cv, m) THEN cv.prec ELSE NulAt(m) + 1

\* memchr(str, '\0', max_len) runs off the mapped memory m: it has not
\* stopped by the time it has read all of m.
array_fault(cv, m) == array_read(cv, m) > Len(m)

\* str_len for a string whose memory is m.
array_length(cv, m) == Min(array_read(cv, m), NulAt(m))

\* print_string_conversion
print_string_conversion(cs) ==
  IF cs.conv.length # kLengthDefault
    THEN [cs EXCEPT !.ok = FALSE]
    ELSE IF va_arg(cs.ap).k = "arr"
    THEN print_converted_string(fetch_value(cs),
                                va_arg(cs.ap).s \o va_arg(cs.ap).rest,
                                array_length(cs.conv, va_arg(cs.ap).s
                                                      \o va_arg(cs.ap).rest))
    ELSE print_converted_string(fetch_value(cs), va_arg(cs.ap).s,
                                string_length(cs.conv, va_arg(cs.ap).s))

\* print_diouxXp_conversions: the switch on the conversion letter
letter_switch(cv) ==
  [cv EXCEPT
     !.is_signed = (cv.type = "d" \/ cv.type = "i"),
     !.base      = CASE cv.type = "o" -> 8
                     [] cv.type \in {"x", "X", "p"} -> 16
                     [] OTHER -> @,
     !.is_caps   = IF cv.type = "X" THEN TRUE ELSE @,
     !.is_alt    = IF cv.type = "p" THEN TRUE ELSE @]

\* A soft precision taken from any explicit width, zero included.
default_prec_any_width(cv) ==
  IF ~cv.explicit_prec
    THEN IF cv.leading_zero /\ cv.explicit_width /\ ~cv.left_justify
           THEN [cv EXCEPT !.prec = cv.width, !.soft_prec = TRUE]
           ELSE [cv EXCEPT !.prec = 1]
    ELSE cv

\* A soft precision taken also for a left-justified field.
default_prec_left(cv) ==
  IF ~cv.explicit_prec
    THEN IF cv.leading_zero /\ cv.explicit_width /\ cv.width # 0
           THEN [cv EXCEPT !.prec = cv.width, !.soft_prec = TRUE]
           ELSE [cv EXCEPT !.prec = 1]
    ELSE cv

\* print_diouxXp_conversions: the precision when none was given
default_prec(cv) ==
  IF ~cv.explicit_prec
    THEN IF cv.leading_zero /\ cv.explicit_width /\ cv.width # 0
            /\ ~cv.left_justify
           THEN [cv EXCEPT !.prec = cv.width, !.soft_prec = TRUE]
           ELSE [cv EXCEPT !.prec = 1]
    ELSE cv

\* The descriptor as print_diouxXp_conversions hands it to the renderer.
diouxXp_descriptor(cv) == default_prec(letter_switch(cv))

\* get_signed_integer or get_unsigned_integer, by conv->is_signed
get_integer(cv, a) ==
  IF cv.is_signed THEN get_signed_integer(cv, a) ELSE get_unsigned_integer(cv, a)

\* print_diouxXp_conversions: the rendered text r is printed in its field
print_rendered(cs, r) ==
  print_converted_string(fetch_value(cs), r.txt, INT_BUF_SIZE - r.idx - 1)

\* print_diouxXp_conversions, the descriptor being set
print_integer(cs) ==
  print_rendered(cs, convert_integer_to_string(
                       get_integer(cs.conv, va_arg(cs.ap)), cs.conv))

\* print_diouxXp_conversions
print_diouxXp_conversions(cs) ==
  print_integer([cs EXCEPT !.conv = diouxXp_descriptor(@)])

\* The total t converted to the type the length modifier selects for the
\* pointee: signed char and short keep its low 8 and 16 bits, two's
\* complement; the wider types hold every total a call of the model reaches.
count_as(length, t) ==
  CASE length = kLengthChar  ->
         ((t + 2 ^ (CHAR_BIT - 1)) % (2 ^ CHAR_BIT)) - 2 ^ (CHAR_BIT - 1)
    [] length = kLengthShort -> ToShort(t)
    [] OTHER                 -> t

\* A %n that stores what was written to a bounded buffer.
store_character_count_written(cs) ==
  [fetch_value(cs) EXCEPT
     !.stored = Append(@, [id |-> va_arg(cs.ap).id, length |-> cs.conv.length,
                           value |-> IF cs.sk.p.kind = "buf"
                                       THEN Min(cs.sk.p.total, cs.sk.p.max)
                                       ELSE cs.sk.p.total]),
     !.ok = TRUE]

\* store_character_count: *va_arg(..., T *) = t, T chosen by the length
\* modifier; the value stored is the total converted to T.
store_character_count(cs) ==
  [fetch_value(cs) EXCEPT
     !.stored = Append(@, [id |-> va_arg(cs.ap).id, length |-> cs.conv.length,
                           value |-> count_as(cs.conv.length, cs.sk.p.total)]),
     !.ok = TRUE]

\* print_conversion
print_conversion(cs) ==
  CASE cs.conv.type = "n" -> store_character_count(cs)
    [] cs.conv.type = "c" -> print_char_conversion(cs)
    [] cs.conv.type = "s" -> print_string_conversion(cs)
    [] cs.conv.type \in {"d", "i", "u", "o", "x", "X", "p"} ->
         print_diouxXp_conversions(cs)
    [] OTHER -> [cs EXCEPT !.ok = FALSE]

----------------------------------------------------------------------------
(* The state machine: main makes the calls of todo one after the other;    *)
(* a call runs printf_core step by step.                                   *)

Step(op) == [op |-> op, total |-> p.total, out |-> Len(stdout), ap |-> ap,
             curr |-> curr_fmt, call |-> p.kind]

PS == [fmt |-> curr_fmt, conv |-> conv, ap |-> ap, log |-> fetched,
       spec |-> conv_fmt]

Inputs == <<fmt, after, args, cap, given>>

SetSink(sk) ==
  /\ p' = sk.p
  /\ stdout' = sk.stdout
  /\ buf' = sk.buf
  /\ wrote' = sk.wrote

SetParser(ps) ==
  /\ curr_fmt' = ps.fmt
  /\ conv' = ps.conv
  /\ ap' = ps.ap
  /\ fetched' = ps.log

\* simple_printf_v1.c.  An unsigned is <<h, l>>, 16 bits each.
u32(w) == <<w[3], w[4]>>

\* u = -u on unsigned
u32_negate(u) ==
  IF u[2] = 0 THEN <<(LIMB - u[1]) % LIMB, 0>>
              ELSE <<LIMB - 1 - u[1], LIMB - u[2]>>

\* Bit i of u, i in 0..31.
u32_bit(u, i) ==
  IF i >= 16 THEN (u[1] \div (2 ^ (i - 16))) % 2 ELSE (u[2] \div (2 ^ i)) % 2

\* The unsigned of a number below 2^31.
u32_of(n) == <<n \div LIMB, n % LIMB>>

\* u / d and u % d on unsigned, for 0 < d < 2^30 and a quotient below 2^31
\* (print_int divides by 10, and by a power of ten that leaves one digit):
\* long division from bit i down, q and r the quotient and the remainder so
\* far.
RECURSIVE u32_divide(_, _, _, _, _)
u32_divide(u, d, i, q, r) ==
  IF i < 0 THEN [q |-> q, r |-> r]
  ELSE IF 2 * r + u32_bit(u, i) >= d
    THEN u32_divide(u, d, i - 1, 2 * q + 1, 2 * r + u32_bit(u, i) - d)
    ELSE u32_divide(u, d, i - 1, 2 * q, 2 * r + u32_bit(u, i))

u32_divmod(u, d) == u32_divide(u, d, 31, 0, 0)

\* print_int: while (tmp >= 10) { pow10 *= 10; tmp /= 10; }
RECURSIVE v1_pow10(_, _)
v1_pow10(tmp, pow10) ==
  IF tmp[1] > 0 \/ tmp[2] >= 10
    THEN v1_pow10(u32_of(u32_divmod(tmp, 10).q), pow10 * 10)
    ELSE pow10

\* print_int: while (pow10 > 0) { putchar('0' + u / pow10); u %= pow10;
\* pow10 /= 10; }
RECURSIVE v1_digits(_, _, _)
v1_put_digit(dm, pow10, out) ==
  v1_digits(u32_of(dm.r), pow10 \div 10, out \o <<Digits[dm.q + 1]>>)
v1_digits(u, pow10, out) ==
  IF pow10 > 0 THEN v1_put_digit(u32_divmod(u, pow10), pow10, out) ELSE out

\* print_int once u and the sign are settled.
v1_print_unsigned(u, out) == v1_digits(u, v1_pow10(u, 1), out)

\* A print_int that prints the magnitude without the sign.
v1_print_int_unsigned(w, out) ==
  IF w[3] >= LIMB \div 2
    THEN v1_print_unsigned(u32_negate(u32(w)), out)
    ELSE v1_print_unsigned(u32(w), out)

\* print_int(d), d the int in the low 32 bits of w: the output after it.
v1_print_int(w, out) ==
  IF w[3] >= LIMB \div 2
    THEN v1_print_unsigned(u32_negate(u32(w)), out \o <<"-">>)
    ELSE v1_print_unsigned(u32(w), out)

\* simple_printf of simple_printf_v1.c from offset i of the format, with a
\* arguments fetched: the output after the call.
RECURSIVE v1_loop(_, _, _)
v1_conversion(i, a, out) ==
  CASE At(i) = "s" -> v1_loop(i + 1, a + 1, out \o va_arg(a).s)
    [] At(i) = "d" -> v1_loop(i + 1, a + 1, v1_print_int(va_arg(a).w, out))
    [] At(i) = "%" -> v1_loop(i + 1, a, out \o <<"%">>)
    [] OTHER       -> v1_loop(i, a, out \o <<"%">>)
v1_loop(i, a, out) ==
  CASE At(i) = NUL -> out
    [] At(i) = "%" -> v1_conversion(i + 1, a, out)
    [] OTHER       -> v1_loop(i + 1, a, out \o <<At(i)>>)

v1_simple_printf(out) == v1_loop(0, 0, out)

\* simple_printf up to the call of printf_core
CallPrintf ==
  /\ pc = "idle" /\ todo # <<>> /\ Head(todo) = "printf"
  /\ todo' = Tail(todo)
  /\ p' = [kind |-> "file", max |-> 0, total |-> 0]
  /\ ap' = 0 /\ fetched' = <<>>
  /\ curr_fmt' = 0 /\ prev_fmt' = 0
  /\ pc' = "scan"
  /\ last' = Step("simple_printf")
  /\ UNCHANGED <<Inputs, stdout, buf, wrote, conv_fmt, conv, stored, ret>>

\* simple_snprintf up to the call of printf_core
CallSnprintf ==
  /\ pc = "idle" /\ todo # <<>> /\ Head(todo) = "snprintf"
  /\ todo' = Tail(todo)
  /\ p' = [kind |-> "buf", max |-> IF cap > 0 THEN cap - 1 ELSE 0, total |-> 0]
  /\ ap' = 0 /\ fetched' = <<>>
  /\ curr_fmt' = 0 /\ prev_fmt' = 0
  /\ pc' = "scan"
  /\ last' = Step("simple_snprintf")
  /\ UNCHANGED <<Inputs, stdout, buf, wrote, conv_fmt, conv, stored, ret>>

\* printf_core: memchr finds a '%'; the batched literal run is flushed and a
\* fresh descriptor is set up.
FindPercent ==
  /\ pc = "scan"
  /\ LET m == memchr_percent(curr_fmt) IN
       /\ m.st = "found"
       /\ SetSink(IF prev_fmt # m.at THEN copy(Sink, Text(prev_fmt, m.at))
                                     ELSE Sink)
       /\ conv_fmt' = m.at
       /\ curr_fmt' = m.at + 1
  /\ conv' = fresh_conv(conv)
  /\ pc' = "percent"
  /\ last' = Step("find")
  /\ UNCHANGED <<Inputs, todo, prev_fmt, ap, stored, ret, fetched>>

\* printf_core: exactly "%%"
LiteralPercent ==
  /\ pc = "percent" /\ At(curr_fmt) = "%"
  /\ SetSink(putc(Sink, "%"))
  /\ curr_fmt' = curr_fmt + 1
  /\ prev_fmt' = curr_fmt + 1
  /\ pc' = "scan"
  /\ last' = Step("percent")
  /\ UNCHANGED <<Inputs, todo, conv_fmt, conv, ap, stored, ret, fetched>>

ParseFlags ==
  /\ pc = "percent" /\ At(curr_fmt) # "%"
  /\ SetParser(parse_flags(PS))
  /\ pc' = "width"
  /\ last' = Step("flags")
  /\ UNCHANGED <<Inputs, todo, p, stdout, buf, wrote, prev_fmt, conv_fmt,
                 stored, ret>>

ParseWidth ==
  /\ pc = "width"
  /\ SetParser(parse_width(PS))
  /\ pc' = "prec"
  /\ last' = Step("width")
  /\ UNCHANGED <<Inputs, todo, p, stdout, buf, wrote, prev_fmt, conv_fmt,
                 stored, ret>>

ParsePrec ==
  /\ pc = "prec"
  /\ SetParser(parse_prec(PS))
  /\ pc' = "length"
  /\ last' = Step("prec")
  /\ UNCHANGED <<Inputs, todo, p, stdout, buf, wrote, prev_fmt, conv_fmt,
                 stored, ret>>

ParseLength ==
  /\ pc = "length"
  /\ SetParser(parse_length(PS))
  /\ pc' = "conv"
  /\ last' = Step("length")
  /\ UNCHANGED <<Inputs, todo, p, stdout, buf, wrote, prev_fmt, conv_fmt,
                 stored, ret>>

\* A failure policy that prints the '%' alone.
print_failed_percent(cs) ==
  IF cs.ok THEN cs ELSE [cs EXCEPT !.sk = putc(@, "%")]

\* A failure policy that takes a '%' in the place of the conversion letter
\* for a literal percent.
print_failed_literal(cs) ==
  IF cs.ok THEN cs
  ELSE IF cs.conv.type = "%" THEN [cs EXCEPT !.sk = putc(@, "%")]
  ELSE [cs EXCEPT !.sk = copy(@, Text(cs.spec, cs.fmt))]

\* printf_core: a failed conversion's specifier is copied out.
print_failed(cs) ==
  IF cs.ok THEN cs ELSE [cs EXCEPT !.sk = copy(@, Text(cs.spec, cs.fmt))]

\* printf_core: conv.type = *curr_fmt++; print_conversion; on failure the
\* specifier is printed.
convert(ps, sk, st) ==
  print_failed(print_conversion(
    [fmt |-> ps.fmt + 1, conv |-> [ps.conv EXCEPT !.type = At(ps.fmt)],
     ap |-> ps.ap, log |-> ps.log, spec |-> ps.spec,
     sk |-> sk, stored |-> st, ok |-> FALSE]))

\* The end of the loop body: the state is updated and prev_fmt = curr_fmt.
Converted(cs, ok) ==
  /\ cs.ok = ok
  /\ SetParser(cs)
  /\ SetSink(cs.sk)
  /\ stored' = cs.stored
  /\ prev_fmt' = cs.fmt

Conversion(ok, op) ==
  /\ pc = "conv"
  /\ Converted(convert(PS, Sink, stored), ok)
  /\ pc' = "scan"
  /\ last' = Step(op)
  /\ UNCHANGED <<Inputs, todo, conv_fmt, ret>>

IntLetters == {"d", "i", "u", "o", "x", "X"}

StoreCharacterCount ==
  /\ At(curr_fmt) = "n"
  /\ Conversion(TRUE, "n")

PrintCharConversion ==
  /\ At(curr_fmt) = "c"
  /\ Conversion(TRUE, "c")

\* print_string_conversion's memchr reads memory that is not mapped.
StringFault ==
  /\ pc = "conv" /\ At(curr_fmt) = "s"
  /\ conv.length = kLengthDefault
  /\ ap < Len(args)
  /\ va_arg(ap).k = "arr"
  /\ array_fault(conv, va_arg(ap).s \o va_arg(ap).rest)

PrintStringConversion ==
  /\ At(curr_fmt) = "s"
  /\ ~StringFault
  /\ Conversion(TRUE, "s")

PrintIntegerConversion ==
  /\ At(curr_fmt) \in IntLetters \cup {"p"}
  /\ Conversion(TRUE, "int")

\* an unrecognised letter, or c or s with a length modifier
FailedConversion ==
  /\ At(curr_fmt) \notin IntLetters \cup {"p", "n"}
  /\ Conversion(FALSE, "fail")

\* printf_core: memchr finds no more '%'; the tail is printed.
PrintTail ==
  /\ pc = "scan"
  /\ memchr_percent(curr_fmt).st = "null"
  /\ SetSink(IF prev_fmt # term_fmt THEN copy(Sink, Text(prev_fmt, term_fmt))
                                    ELSE Sink)
  /\ pc' = "ret"
  /\ last' = Step("tail")
  /\ UNCHANGED <<Inputs, todo, curr_fmt, prev_fmt, conv_fmt, conv, ap, stored,
                 ret, fetched>>

\* simple_printf: return p.total
ReturnPrintf ==
  /\ pc = "ret" /\ p.kind = "file"
  /\ ret' = [ret EXCEPT !.printf = <<p.total>>]
  /\ pc' = "idle"
  /\ last' = Step("return")
  /\ UNCHANGED <<Inputs, todo, p, stdout, buf, wrote, curr_fmt, prev_fmt,
                 conv_fmt, conv, ap, stored, fetched>>

\* A terminator always put in the buffer's last cell.
terminator_index_max(pr) == pr.max

\* The index simple_snprintf terminates the result at.
terminator_index(pr) == IF pr.total < pr.max THEN pr.total ELSE pr.max

\* simple_snprintf: null terminate the result and return p.total
ReturnSnprintf ==
  /\ pc = "ret" /\ p.kind = "buf"
  /\ LET end == terminator_index(p) IN
       /\ buf' = [buf EXCEPT ![end] = NUL]
       /\ wrote' = wrote \cup {end}
  /\ ret' = [ret EXCEPT !.snprintf = <<p.total>>]
  /\ pc' = "idle"
  /\ last' = Step("return")
  /\ UNCHANGED <<Inputs, todo, p, stdout, curr_fmt, prev_fmt, conv_fmt, conv,
                 ap, stored, fetched>>

\* A read of memory that is not mapped: memchr running off the end of what
\* follows the format, parse_length's look-ahead fmt[1], or the memchr of
\* print_string_conversion running off the end of what follows an array.
MemoryFault ==
  /\ \/ pc = "scan" /\ memchr_percent(curr_fmt).st = "fault"
     \/ pc = "length" /\ ~Mapped(curr_fmt + 1)
     \/ StringFault
  /\ pc' = "fault"
  /\ last' = Step("fault")
  /\ UNCHANGED <<Inputs, todo, p, stdout, buf, wrote, curr_fmt, prev_fmt,
                 conv_fmt, conv, ap, stored, ret, fetched>>

\* simple_printf of simple_printf_v1.c, the whole call: it prints to the
\* same stdout.
CallV1 ==
  /\ pc = "idle" /\ todo # <<>> /\ Head(todo) = "v1"
  /\ todo' = Tail(todo)
  /\ stdout' = v1_simple_printf(stdout)
  /\ last' = Step("v1")
  /\ UNCHANGED <<Inputs, p, buf, wrote, curr_fmt, prev_fmt, conv_fmt, conv,
                 ap, stored, ret, fetched, pc>>

Next ==
  \/ CallPrintf
  \/ CallSnprintf
  \/ FindPercent
  \/ LiteralPercent
  \/ ParseFlags
  \/ ParseWidth
  \/ ParsePrec
  \/ ParseLength
  \/ StoreCharacterCount
  \/ PrintCharConversion
  \/ PrintStringConversion
  \/ PrintIntegerConversion
  \/ FailedConversion
  \/ PrintTail
  \/ ReturnPrintf
  \/ ReturnSnprintf
  \/ MemoryFault
  \/ CallV1

----------------------------------------------------------------------------
(* The calls the model makes.  An input is [fmt, args, after, cap, todo,   *)
(* given].                                                                 *)

I(i) == [k |-> "int", w |-> CastUnsigned(WordOfInt(i))]
W(w) == [k |-> "wide", w |-> w]
P(w) == [k |-> "ptr", w |-> w]
C(c) == [k |-> "chr", c |-> c]
S(s) == [k |-> "str", s |-> s]
A(s, rest) == [k |-> "arr", s |-> s, rest |-> rest]
N(id) == [k |-> "nptr", id |-> id]

RECURSIVE DecimalText(_)
DecimalText(n) ==
  IF n < 10 THEN <<Digits[n + 1]>>
            ELSE DecimalText(n \div 10) \o <<Digits[(n % 10) + 1]>>

\* How a width or a precision is written: not at all, as "." alone (a
\* precision), as digits, or as '*' with the argument n.
None == [kind |-> "none", n |-> 0]
Dot == [kind |-> "dot", n |-> 0]
Dec(n) == [kind |-> "digits", n |-> n]
Star(n) == [kind |-> "star", n |-> n]

WidthText(w) ==
  CASE w.kind = "digits" -> DecimalText(w.n)
    [] w.kind = "star"   -> <<"*">>
    [] OTHER             -> <<>>
PrecText(pr) ==
  CASE pr.kind = "dot"    -> <<".">>
    [] pr.kind = "digits" -> <<".">> \o DecimalText(pr.n)
    [] pr.kind = "star"   -> <<".", "*">>
    [] OTHER              -> <<>>
StarArgs(w) == IF w.kind = "star" THEN <<I(w.n)>> ELSE <<>>

Free == [kind |-> "free"]

\* A format of one specifier between brackets: "[%<flags><width><prec><length>
\* <letter>]"; letter is a sequence, empty for a format that ends inside the
\* specifier; value is the sequence of the conversion's own arguments.
One(fl, w, pr, ln, letter, value, follow, calls) ==
  [fmt   |-> <<"[", "%">> \o fl \o WidthText(w) \o PrecText(pr) \o ln \o letter
             \o (IF letter = <<>> THEN <<>> ELSE <<"]">>),
   args  |-> StarArgs(w) \o StarArgs(pr) \o value,
   after |-> follow,
   cap   |-> MaxCap,
   todo  |-> calls,
   given |-> [kind |-> "one", flags |-> fl, width |-> w, prec |-> pr,
              length |-> ln, letter |-> letter, value |-> value]]

Lengths == {<<>>, <<"h", "h">>, <<"h">>, <<"l">>, <<"l", "l">>, <<"j">>,
            <<"z">>, <<"t">>}

\* The argument a conversion letter takes, when it takes one.
ValueFor(letter, ln, i) ==
  CASE letter = <<"c">> -> <<C("*")>>
    [] letter = <<"s">> -> <<S(<<"H", "e", "y">>)>>
    [] letter = <<"n">> -> <<N(1)>>
    [] letter = <<"p">> -> <<P(WordOfInt(i))>>
    [] letter \in {<<t>> : t \in IntLetters} ->
         IF ln \in {<<>>, <<"h", "h">>, <<"h">>} THEN <<I(i)>>
                                                 ELSE <<W(WordOfInt(i))>>
    [] OTHER -> <<>>

\* What may lie after a format's terminator.
AfterSet == {<<>>, <<"z", "%", "%">>}

\* A few calls that together reach every step of the engine.
BaseInputs ==
  { [fmt   |-> <<"H", "i", " ", "%", "s", ",", "%", "d", "%", "%", "%", "c",
                "%", "n", ".">>,
     args  |-> <<S(<<"y", "o", "u">>), I(42), C("*"), N(1)>>,
     after |-> <<>>, cap |-> 5, todo |-> <<"printf", "snprintf">>,
     given |-> Free] }
  \cup
  { [fmt   |-> <<"a", "b", "%">> \o tl, args |-> <<>>, after |-> af, cap |-> 3,
     todo  |-> <<call>>, given |-> Free] :
      tl \in {<<>>, <<"l">>}, af \in AfterSet, call \in {"printf", "snprintf"} }
  \cup
  { [fmt   |-> <<"%", "q", "%", "l", "s">>, args |-> <<>>, after |-> <<>>,
     cap   |-> 4, todo |-> <<"snprintf", "printf">>, given |-> Free] }
  \cup
  { [fmt   |-> <<"H", "i", " ", "%", "s", ",", "%", "d", "%", "%", ".">>,
     args  |-> <<S(<<"y", "o", "u">>), I(42)>>,
     after |-> <<>>, cap |-> 5, todo |-> <<"printf", "v1">>, given |-> Free] }

\* Pieces of formats for exercising the sinks.
SinkPieces ==
  { [fmt |-> <<"a", "b">>, args |-> <<>>],
    [fmt |-> <<"%", "%">>, args |-> <<>>],
    [fmt |-> <<"%", "d">>, args |-> <<I(123456)>>],
    [fmt |-> <<"%", "5", "s">>, args |-> <<S(<<"H", "e", "y">>)>>],
    [fmt |-> <<"%", "-", "3", "c">>, args |-> <<C("*")>>],
    [fmt |-> <<"%", "0", "4", "x">>, args |-> <<I(255)>>],
    [fmt |-> <<"%", "*", "d">>, args |-> <<I(-4), I(-7)>>],
    [fmt |-> <<"%", "n">>, args |-> <<N(1)>>],
    [fmt |-> <<"%", "q">>, args |-> <<>>] }

Cat(a, b) == [fmt |-> a.fmt \o b.fmt, args |-> a.args \o b.args]

SinkFormats ==
  {[fmt |-> <<>>, args |-> <<>>]} \cup SinkPieces
  \cup {Cat(a, b) : a \in SinkPieces, b \in SinkPieces}

SinkInputs ==
  { [fmt |-> f.fmt, args |-> f.args, after |-> <<>>, cap |-> c, todo |-> t,
     given |-> Free] :
      f \in SinkFormats, c \in 0..MaxCap,
      t \in {<<"printf", "snprintf">>, <<"snprintf", "printf">>} }

InitWith(inputs) ==
  \E in \in inputs :
    /\ fmt = in.fmt /\ after = in.after /\ args = in.args /\ cap = in.cap
    /\ todo = in.todo /\ given = in.given
    /\ pc = "idle"
    /\ p = [kind |-> "none", max |-> 0, total |-> 0]
    /\ stdout = <<>>
    /\ buf = [i \in 0..MaxCap |-> "?"]
    /\ wrote = {}
    /\ curr_fmt = 0 /\ prev_fmt = 0 /\ conv_fmt = 0
    /\ conv = conv_init
    /\ ap = 0
    /\ stored = <<>>
    /\ ret = [printf |-> <<>>, snprintf |-> <<>>]
    /\ fetched = <<>>
    /\ last = [op |-> "init", total |-> 0, out |-> 0, ap |-> 0, curr |-> 0,
               call |-> "none"]

\* Formats of one specifier, for the parser and the failure policy.
ParseInputs ==
  { One(fl, w, pr, ln, letter, ValueFor(letter, ln, 42), <<>>, <<"printf">>) :
      fl \in {<<>>, <<"0">>, <<"-", "#">>},
      w  \in {None, Dec(7), Star(5), Star(-5)},
      pr \in {None, Dot, Dec(2), Star(1), Star(-1)},
      ln \in Lengths,
      letter \in {<<"q">>, <<"c">>, <<"s">>, <<"d">>, <<"x">>, <<"n">>, <<"p">>,
                  <<"%">>, <<>>} }

\* Specifiers that fetch, for formats of two specifiers.
FetchPieces ==
  { [fmt |-> <<"%", "*", ".", "*", "d">>, args |-> <<I(5), I(2), I(42)>>],
    [fmt |-> <<"%", "-", "*", "l", "q">>, args |-> <<I(3)>>],
    [fmt |-> <<"%", ".", "*", "s">>, args |-> <<I(1), S(<<"H", "e", "y">>)>>],
    [fmt |-> <<"%", "*", "c">>, args |-> <<I(-2), C("*")>>],
    [fmt |-> <<"%", "h", "n">>, args |-> <<N(1)>>],
    [fmt |-> <<"%", "x">>, args |-> <<I(255)>>] }

FetchInputs ==
  { [fmt |-> f.fmt, args |-> f.args, after |-> <<>>, cap |-> MaxCap,
     todo |-> <<"printf">>, given |-> Free] :
      f \in {Cat(a, b) : a \in FetchPieces, b \in FetchPieces} }

\* Flags tried on the integer conversions.
IntFlags == {<<>>, <<"0">>, <<"-">>, <<"+">>, <<" ">>, <<"#">>, <<"#", "0">>,
             <<"0", "-">>, <<"+", "0">>}

\* Integer conversions with every combination of flags, width and precision.
IntInputs ==
  { One(fl, w, pr, <<>>, <<t>>, <<I(v)>>, <<>>, <<"printf">>) :
      fl \in IntFlags,
      w  \in {None, Dec(3), Star(0), Star(-3)},
      pr \in {None, Dot, Star(-1), Star(0), Star(2), Dec(2 ^ 16)}
               \cup {Dec(n) : n \in 0..MaxPrec},
      t  \in IntLetters,
      v  \in {0, 1, -1, 255, 123456} }

\* Zero-padded signed fields of every width.
SoftInputs ==
  { One(fl, Dec(w), None, <<>>, <<t>>, <<I(v)>>, <<>>, <<"printf">>) :
      fl \in {<<"0">>, <<"0", "+">>, <<" ", "0">>},
      w  \in 1..MaxWidth,
      t  \in {"d", "i"},
      v  \in {0, 7, -1, -1234, 123456, 2147483647, -2147483647} }

\* The widths and flags tried on fields; one width is too large for a short.
FieldFlags == {<<>>, <<"-">>, <<"0">>, <<"0", "-">>, <<"+">>}
FieldWidths == {None, Dec(1), Dec(5), Dec(9), Star(0), Star(5), Star(-5),
                Dec(2 ^ 16)}

\* Conversions of every kind in fields of several widths and precisions.
FieldInputs ==
  { One(fl, w, pr, <<>>, <<"d">>, <<I(v)>>, <<>>, <<"printf">>) :
      fl \in FieldFlags, w \in FieldWidths,
      pr \in {None, Dot, Dec(0), Dec(2), Dec(7), Star(-1), Star(2)},
      v  \in {0, 42, -1234} }
  \cup
  { One(fl, w, pr, <<>>, <<"s">>, <<S(v)>>, <<>>, <<"printf">>) :
      fl \in FieldFlags, w \in FieldWidths,
      pr \in {None, Dot, Dec(0), Dec(2), Dec(5), Dec(7), Star(-1), Star(2),
              Dec(2 ^ 16)},
      v  \in {<<"H", "e", "l", "l", "o">>, <<>>} }
  \cup
  { One(fl, w, pr, <<>>, <<t>>, ValueFor(<<t>>, <<>>, 255), <<>>, <<"printf">>) :
      fl \in FieldFlags, w \in FieldWidths,
      pr \in {None, Dot, Dec(2), Star(-1)},
      t  \in {"c", "x", "p", "u"} }

Init == InitWith(BaseInputs \cup SinkInputs)
Spec == Init /\ [][Next]_vars

\* "%<mods>%d" with an int argument: a '%' in the place of the conversion
\* letter, and a 'd' after it.
PercentLetterInputs ==
  { [fmt   |-> <<"%">> \o mods \o <<"%", "d">>, args |-> <<I(42)>>,
     after |-> <<>>, cap |-> MaxCap, todo |-> <<call>>,
     given |-> [kind |-> "pct", mods |-> mods]] :
      mods \in {<<>>, <<"l">>, <<"h", "h">>, <<"5">>, <<"-">>, <<"0">>,
                <<".", "2">>, <<"#", "0", "8", ".", "3", "l", "l">>},
      call \in {"printf", "snprintf"} }

\* Specifiers that set every field of the descriptor.
LeakFirsts ==
  { [fmt |-> <<"%", "-", "#", "0", "+", "8", ".", "5", "l", "l", "X">>,
     args |-> <<W(<<0, 0, 0, 255>>)>>],
    [fmt |-> <<"%", "#", "o">>, args |-> <<I(8)>>],
    [fmt |-> <<"%", "+", "0", "5", "d">>, args |-> <<I(7)>>],
    [fmt |-> <<"%", " ", "h", "h", "d">>, args |-> <<I(300)>>],
    [fmt |-> <<"%", "-", "6", ".", "2", "s">>, args |-> <<S(<<"H", "e", "y">>)>>],
    [fmt |-> <<"%", "*", ".", "*", "x">>, args |-> <<I(-6), I(3), I(255)>>],
    [fmt |-> <<"%", "p">>, args |-> <<P(<<0, 0, 0, 255>>)>>],
    [fmt |-> <<"%", "-", "0", "7", "l", "q">>, args |-> <<>>] }

\* Specifiers that come second, and the text each prints when it stands
\* alone in a format.
LeakSeconds ==
  { [fmt |-> <<"%", "d">>, args |-> <<I(42)>>, text |-> <<"4", "2">>],
    [fmt |-> <<"%", "d">>, args |-> <<I(0)>>, text |-> <<"0">>],
    [fmt |-> <<"%", "u">>, args |-> <<I(-1)>>,
     text |-> <<"4", "2", "9", "4", "9", "6", "7", "2", "9", "5">>],
    [fmt |-> <<"%", "x">>, args |-> <<I(255)>>, text |-> <<"f", "f">>],
    [fmt |-> <<"%", "o">>, args |-> <<I(8)>>, text |-> <<"1", "0">>],
    [fmt |-> <<"%", "5", "d">>, args |-> <<I(42)>>,
     text |-> <<" ", " ", " ", "4", "2">>],
    [fmt |-> <<"%", "s">>, args |-> <<S(<<"H", "e", "y">>)>>,
     text |-> <<"H", "e", "y">>],
    [fmt |-> <<"%", "c">>, args |-> <<C("*")>>, text |-> <<"*">>] }

LeakInputs ==
  { [fmt   |-> <<"[">> \o a.fmt \o <<"]", "[">> \o b.fmt \o <<"]">>,
     args  |-> a.args \o b.args,
     after |-> <<>>, cap |-> MaxCap, todo |-> <<"printf">>,
     given |-> [kind |-> "leak", text |-> b.text]] :
      a \in LeakFirsts, b \in LeakSeconds }

InitParse ==
  InitWith(BaseInputs \cup ParseInputs \cup FetchInputs
           \cup PercentLetterInputs \cup LeakInputs)
SpecParse == InitParse /\ [][Next]_vars

\* Zero-filled alternate-form octal and hex fields of every width.
AltSoftInputs ==
  { One(fl, Dec(w), None, <<>>, <<t>>, <<I(v)>>, <<>>, <<"printf">>) :
      fl \in {<<"#", "0">>, <<"0", "#">>},
      w  \in 1..MaxWidth,
      t  \in {"o", "x", "X"},
      v  \in {0, 1, 8, 255, 123456, 2147483647} }

InitInt ==
  InitWith(BaseInputs \cup IntInputs \cup SoftInputs \cup AltSoftInputs)
SpecInt == InitInt /\ [][Next]_vars

\* %p with every length modifier before it, and %p followed by a 'p', of a
\* small pointer and of one that needs all of its 64 bits.
PointerInputs ==
  { One(<<>>, None, None, ln, letter, <<P(w)>>, <<>>, <<"printf">>) :
      ln \in Lengths,
      letter \in {<<"p">>, <<"p", "p">>, <<"p", "x">>},
      w \in {WordOfInt(255), <<32766, 4660, 43981, 61185>>} }

\* "%hhn%hn%n%ln%lln%jn%zn%tn"
CountSpecs ==
  <<"%", "h", "h", "n", "%", "h", "n", "%", "n", "%", "l", "n",
    "%", "l", "l", "n", "%", "j", "n", "%", "z", "n", "%", "t", "n">>

\* The length modifiers of CountSpecs, in order.
CountLengths ==
  <<kLengthChar, kLengthShort, kLengthDefault, kLengthLong, kLengthLongLong,
    kLengthIntMaxT, kLengthSizeT, kLengthPtrDiffT>>

\* "ABCDE%hhn...%tnFGHIJ%hhn...%tn"
CountFormat ==
  <<"A", "B", "C", "D", "E">> \o CountSpecs
  \o <<"F", "G", "H", "I", "J">> \o CountSpecs

\* Calls that store character counts: the format above through both entry
\* points, and counts too large for a signed char.
CountInputs ==
  { [fmt |-> CountFormat, args |-> [i \in 1..16 |-> N(i)], after |-> <<>>,
     cap |-> c, todo |-> t, given |-> Free] :
      c \in {0, 5, MaxCap},
      t \in {<<"printf", "snprintf">>, <<"snprintf", "printf">>} }
  \cup
  { [fmt |-> <<"%", "1", "3", "0", "c">> \o CountSpecs,
     args |-> <<C("*")>> \o [i \in 1..8 |-> N(i)], after |-> <<>>,
     cap |-> 5, todo |-> <<call>>, given |-> Free] :
      call \in {"printf", "snprintf"} }

\* Formats with a run of 2k '%' between literal text, k = 0..MaxRun; post
\* may hold a %d, whose argument is 7.
PercentInputs ==
  { [fmt |-> pre \o Repeat("%", 2 * k) \o post, args |-> <<I(7)>>,
     after |-> <<>>, cap |-> 3, todo |-> t,
     given |-> [kind |-> "run", k |-> k, pre |-> pre, post |-> post]] :
      k \in 0..MaxRun,
      pre \in {<<>>, <<"a", "b">>},
      post \in {<<>>, <<"c">>, <<"c", "%", "d">>},
      t \in {<<"printf", "snprintf">>, <<"snprintf", "printf">>} }

\* The conversions a width is tried on: letter, argument and the text the
\* argument prints as when nothing pads it.
StarValues ==
  { [letter |-> "d", arg |-> I(42), text |-> <<"4", "2">>],
    [letter |-> "x", arg |-> I(255), text |-> <<"f", "f">>],
    [letter |-> "c", arg |-> C("*"), text |-> <<"*">>],
    [letter |-> "s", arg |-> S(<<"H", "e", "y">>), text |-> <<"H", "e", "y">>] }

\* The same conversion twice in one format: with the width w as a '*'
\* argument (negated if neg), and with w as digits (after a '-' if neg).
StarPair(fl, w, neg, v) ==
  [fmt   |-> <<"[", "%">> \o fl \o <<"*", v.letter, "]">>
             \o <<"[", "%">> \o fl \o (IF neg THEN <<"-">> ELSE <<>>)
             \o DecimalText(w) \o <<v.letter, "]">>,
   args  |-> <<I(IF neg THEN -w ELSE w), v.arg, v.arg>>,
   after |-> <<>>, cap |-> MaxCap, todo |-> <<"printf">>,
   given |-> [kind |-> "pair", w |-> w, neg |-> neg, text |-> v.text,
              flags |-> fl]]

StarInputs ==
  { StarPair(fl, w, neg, v) :
      fl \in {<<>>, <<"0">>, <<"+">>},
      w \in (0..MaxStar) \cup {2 ^ 16},
      neg \in BOOLEAN,
      v \in StarValues }

\* The conversions a precision is tried on.
StarPrecValues ==
  { [letter |-> "d", arg |-> I(0)],
    [letter |-> "d", arg |-> I(42)],
    [letter |-> "d", arg |-> I(-42)],
    [letter |-> "x", arg |-> I(0)],
    [letter |-> "u", arg |-> I(255)],
    [letter |-> "s", arg |-> S(<<"H", "e", "y">>)],
    [letter |-> "s", arg |-> S(<<>>)] }

\* The negative arguments a ".*" is given.
NegativePrecs == {-1, -MaxPrec, -(2 ^ 16), -(2 ^ 30) - (2 ^ 30)}

\* The same conversion twice in one format: with the precision as the
\* negative '*' argument n, and with the precision written ".0".
StarPrecPair(fl, wd, n, v) ==
  [fmt   |-> <<"[", "%">> \o fl \o wd \o <<".", "*", v.letter, "]">>
             \o <<"[", "%">> \o fl \o wd \o <<".", "0", v.letter, "]">>,
   args  |-> <<I(n), v.arg, v.arg>>,
   after |-> <<>>, cap |-> MaxCap, todo |-> <<"printf">>,
   given |-> [kind |-> "precpair", n |-> n, letter |-> v.letter,
              value |-> v.arg, flags |-> fl, width |-> wd]]

StarPrecInputs ==
  { StarPrecPair(fl, wd, n, v) :
      fl \in {<<>>, <<"-">>, <<"0">>},
      wd \in {<<>>, <<"3">>},
      n \in NegativePrecs,
      v \in StarPrecValues }

\* The same integer conversion twice in one format, with the '0' flag and
\* without it.
ZeroPair(fl, w, pr, t, v) ==
  [fmt   |-> <<"[", "%", "0">> \o fl \o WidthText(w) \o PrecText(pr)
             \o <<t, "]">>
             \o <<"[", "%">> \o fl \o WidthText(w) \o PrecText(pr) \o <<t, "]">>,
   args  |-> StarArgs(w) \o StarArgs(pr) \o <<I(v)>>
             \o StarArgs(w) \o StarArgs(pr) \o <<I(v)>>,
   after |-> <<>>, cap |-> MaxCap, todo |-> <<"printf">>,
   given |-> [kind |-> "zeropair", flags |-> fl, width |-> w, prec |-> pr,
              letter |-> t, value |-> v]]

\* Conversions for which soft precision is ruled out: by an explicit
\* precision, by the '-' flag, or by a negative '*' width.
ZeroPairInputs ==
  { ZeroPair(fl, w, pr, t, v) :
      fl \in {<<>>, <<"+">>, <<"#">>},
      w  \in {Dec(3), Dec(7), Star(7)},
      pr \in {Dot, Dec(0), Dec(2), Dec(5), Star(3)},
      t  \in {"d", "u", "o", "x"},
      v  \in {0, 42, -1234} }
  \cup
  { ZeroPair(fl, w, pr, t, v) :
      fl \in {<<"-">>, <<"-", "+">>, <<"#", "-">>},
      w  \in {Dec(3), Dec(7), Star(7)},
      pr \in {None, Dec(5)},
      t  \in {"d", "u", "o", "x"},
      v  \in {0, 42, -1234} }
  \cup
  { ZeroPair(fl, Star(-7), pr, t, v) :
      fl \in {<<>>, <<"+">>, <<"#">>},
      pr \in {None, Dec(5)},
      t  \in {"d", "u", "o", "x"},
      v  \in {0, 42, -1234} }

InitField ==
  InitWith(BaseInputs \cup FieldInputs \cup PointerInputs \cup StarInputs
           \cup StarPrecInputs \cup ZeroPairInputs)
SpecField == InitField /\ [][Next]_vars

----------------------------------------------------------------------------
(* The bounded sink against the stream sink (specification Spec).          *)

BothReturned == ret.printf # <<>> /\ ret.snprintf # <<>>

\* C1: for the same format and arguments, whatever the capacity (0 and
\* capacities smaller than the output included), simple_snprintf returns the
\* value simple_printf returns.
SnprintfReturnsWhatPrintfReturns ==
  BothReturned => ret.snprintf = ret.printf

\* A call whose output did not fit: fill, copy and putc all ran on a full
\* buffer ("%-3c%%" after "%d" of 123456), and both calls have returned.
SnprintfReturnsWhatPrintfReturnsWitness ==
  /\ BothReturned
  /\ fmt = <<"%", "d", "%", "-", "3", "c">>
  /\ cap = 5
  /\ ret.snprintf = <<9>>

\* C2: with a capacity of at least 1 the buffer holds, after the call, the
\* first min(total, capacity - 1) characters of the whole output followed by
\* the terminator; the whole output is what simple_printf sends to the stream.
BufferHoldsTruncatedOutput ==
  (BothReturned /\ cap >= 1) =>
     /\ \A i \in 0..(Min(ret.snprintf[1], cap - 1) - 1) : buf[i] = stdout[i + 1]
     /\ buf[Min(ret.snprintf[1], cap - 1)] = NUL

\* "%d" of 123456 into a buffer of capacity 5: 6 is returned and the buffer
\* holds "1234" and the terminator.
BufferHoldsTruncatedOutputWitness ==
  /\ BothReturned
  /\ fmt = <<"%", "d">> /\ args = <<I(123456)>> /\ cap = 5
  /\ ret.snprintf = <<6>>
  /\ \A i \in 0..3 : buf[i] = <<"1", "2", "3", "4">>[i + 1]
  /\ buf[4] = NUL

\* C3: every index simple_snprintf writes in the caller's buffer, the
\* terminator's included, is below the capacity, a capacity of 0 included.
EveryWriteBelowCapacity ==
  \A i \in wrote : i < cap

\* With a capacity of at least 1 every write is below the capacity.
EveryWriteBelowPositiveCapacity ==
  cap >= 1 => \A i \in wrote : i < cap

----------------------------------------------------------------------------
(* The parser and the failure policy (specification SpecParse).            *)

\* What the step just taken appended to the stream.
Field == SubSeq(stdout, last.out + 1, Len(stdout))

\* The specifier of a one-specifier format, as it was written.
GivenText ==
  <<"%">> \o given.flags \o WidthText(given.width) \o PrecText(given.prec)
          \o given.length \o given.letter

\* The one-specifier formats whose conversion fails: an unrecognised letter,
\* or c or s with a length modifier.
GivenFails ==
  /\ given.kind = "one"
  /\ \/ given.letter = <<"q">>
     \/ given.letter \in {<<"c">>, <<"s">>} /\ given.length # <<>>

\* C4: a failed conversion emits the specifier's text, from its '%' through
\* the last character consumed, and nothing else; the scan resumes at the
\* character after it.  A one-specifier format "[%...q]" comes out unchanged.
FailedConversionEmitsSpecifier ==
  /\ last.op = "fail" =>
       /\ p.total = last.total + (curr_fmt - conv_fmt)
       /\ prev_fmt = curr_fmt
       /\ p.kind = "file" => Field = Text(conv_fmt, curr_fmt)
  /\ (last.op = "fail" /\ GivenFails) =>
       /\ Field = GivenText
       /\ At(curr_fmt) = "]"
  /\ (ret.printf # <<>> /\ GivenFails) => stdout = fmt

\* "[%q]": the conversion has just failed and "%q" is what it emitted.
FailedConversionEmitsSpecifierWitness ==
  /\ last.op = "fail"
  /\ fmt = <<"[", "%", "q", "]">>
  /\ stdout = <<"[", "%", "q">>
  /\ At(curr_fmt) = "]"

\* C5: a specifier that ends as a failed conversion has consumed no argument,
\* whatever its flags, width, precision and length modifier: no argument was
\* fetched for it, and the position in the arguments is where it was.
FailedConversionConsumesNoArgument ==
  last.op = "fail" =>
    \A k \in 1..Len(fetched) : fetched[k].spec # conv_fmt

\* A failed conversion fetches no value argument: the position in the
\* arguments is as the parser left it.
FailedConversionFetchesNoValue ==
  last.op = "fail" =>
    /\ ap = last.ap
    /\ \A k \in 1..Len(fetched) : fetched[k].role # "value"
                                    \/ fetched[k].spec # conv_fmt

RoleRank(role) ==
  CASE role = "width" -> 1
    [] role = "prec"  -> 2
    [] OTHER          -> 3

Abs(n) == IF n < 0 THEN -n ELSE n

\* C6: the arguments are fetched one after the other from the first: the k-th
\* fetch takes the k-th argument; a later fetch belongs to the same or a later
\* specifier; within a specifier the width is fetched before the precision
\* and the precision before the value; and the width and the precision used
\* are the arguments fetched for them, whatever their values.
ArgumentsFetchedInOrder ==
  /\ ap = Len(fetched)
  /\ \A k \in 1..Len(fetched) : fetched[k].idx = k - 1
  /\ \A j \in 1..Len(fetched) : \A k \in (j + 1)..Len(fetched) :
       \/ fetched[j].spec < fetched[k].spec
       \/ /\ fetched[j].spec = fetched[k].spec
          /\ RoleRank(fetched[j].role) < RoleRank(fetched[k].role)
  /\ (given.kind = "one" /\ last.op = "width" /\ given.width.kind = "star") =>
       conv.width = Abs(given.width.n)
  /\ (given.kind = "one" /\ last.op = "prec" /\ given.prec.kind = "star") =>
       conv.prec = Max(0, given.prec.n)

\* "%*.*d%.*s" has returned: width, precision and value of the first
\* specifier, then precision and value of the second.
ArgumentsFetchedInOrderWitness ==
  /\ ret.printf # <<>>
  /\ fmt = <<"%", "*", ".", "*", "d", "%", ".", "*", "s">>
  /\ Len(fetched) = 5
  /\ fetched[1].role = "width" /\ fetched[2].role = "prec"
  /\ fetched[3].role = "value" /\ fetched[4].role = "prec"
  /\ fetched[5].role = "value" /\ fetched[4].spec > fetched[3].spec

----------------------------------------------------------------------------
(* The integer conversions (specification SpecInt).                        *)

Range(s) == {s[i] : i \in 1..Len(s)}

\* An integer conversion of a one-specifier format has just been printed by
\* simple_printf.
IntCase ==
  /\ last.op = "int" /\ last.call = "file"
  /\ given.kind = "one"
  /\ given.letter \in {<<t>> : t \in IntLetters}

HasDigit(f) ==
  \E i \in 1..Len(f) : f[i] \in Range(hex_digits(FALSE)) \cup Range(hex_digits(TRUE))

\* The precision is written as an explicit zero: ".", ".0", or ".*" with an
\* argument of 0 or less.
ExplicitZeroPrec ==
  \/ given.prec.kind = "dot"
  \/ given.prec.kind = "digits" /\ given.prec.n = 0
  \/ given.prec.kind = "star" /\ given.prec.n <= 0

AltOctal == "#" \in Range(given.flags) /\ given.letter = <<"o">>

GivenZero == given.value = <<I(0)>>

GivenWidth == Abs(given.width.n)

\* C7 as it reads, for the precisions of any magnitude: the text of d, i, u,
\* o, x, X is empty (the field has no digit and is the width's padding only)
\* exactly when the value is 0, the precision is an explicit 0 and the
\* conversion is not alternate-form octal; alternate-form octal of 0 with
\* precision 0 is "0" in its padding.
EmptyTextIffZeroAndPrecisionZero ==
  IntCase =>
    /\ ~HasDigit(Field) <=> (GivenZero /\ ExplicitZeroPrec /\ ~AltOctal)
    /\ (GivenZero /\ ExplicitZeroPrec /\ ~AltOctal) =>
         Field = Repeat(" ", GivenWidth)
    /\ (GivenZero /\ ExplicitZeroPrec /\ AltOctal) =>
         /\ Len(Field) = Max(1, GivenWidth)
         /\ \E i \in 1..Len(Field) :
              /\ Field[i] = "0"
              /\ \A j \in 1..Len(Field) : j # i => Field[j] = " "

\* The same with the precisions a short holds (below 2^15).
EmptyTextIffZeroAndSmallPrecisionZero ==
  (given.kind = "one" /\ given.prec.n < 2 ^ 15) =>
    EmptyTextIffZeroAndPrecisionZero

\* C8: a width of 0 given through '*', with no precision, does not suppress
\* the value: every integer conversion prints a digit for the value 0, and
\* with no flag or the '0' flag alone the field is the single digit "0", so
\* that "[%*d]" with 0, 0 is "[0]".
ZeroWidthPrintsValue ==
  /\ (IntCase /\ given.width = Star(0) /\ given.prec = None /\ GivenZero) =>
       /\ HasDigit(Field)
       /\ Range(given.flags) \subseteq {"0"} => Field = <<"0">>
  /\ (ret.printf # <<>> /\ given.kind = "one" /\ given.width = Star(0)
        /\ given.prec = None /\ GivenZero /\ Range(given.flags) \subseteq {"0"}
        /\ given.letter \in {<<t>> : t \in IntLetters}) =>
       stdout = <<"[", "0", "]">>

\* "[%0*d]" with 0, 0 has printed "[0]".
ZeroWidthPrintsValueWitness ==
  /\ ret.printf = <<3>>
  /\ fmt = <<"[", "%", "0", "*", "d", "]">>
  /\ args = <<I(0), I(0)>>
  /\ stdout = <<"[", "0", "]">>

\* The sign character a signed conversion shows for the value given.
GivenSign ==
  CASE IntOfWord(given.value[1].w) < 0 -> <<"-">>
    [] "+" \in Range(given.flags)      -> <<"+">>
    [] " " \in Range(given.flags)      -> <<" ">>
    [] OTHER                           -> <<>>

GivenDigits == DecimalText(Abs(IntOfWord(given.value[1].w)))

\* d or i with the '0' flag, a width written as digits, no precision, no '-'.
ZeroPaddedCase ==
  /\ IntCase
  /\ given.letter \in {<<"d">>, <<"i">>}
  /\ "0" \in Range(given.flags) /\ "-" \notin Range(given.flags)
  /\ given.width.kind = "digits" /\ given.width.n >= 1
  /\ given.prec = None

\* C9: for d and i with the '0' flag, a width w of 1 to 47, no precision and
\* no '-' flag, a field that has a sign character is the sign, then zeros,
\* then the digits, of length max(w, 1 + number of digits): the sign takes
\* one place of the zero padding.
SignEatsIntoZeroPadding ==
  (ZeroPaddedCase /\ given.width.n <= INT_BUF_SIZE - 1 /\ GivenSign # <<>>) =>
    Field = GivenSign
            \o Repeat("0", Max(given.width.n, 1 + Len(GivenDigits))
                           - 1 - Len(GivenDigits))
            \o GivenDigits

\* "[%07d]" with -1234 has printed "[-001234]".
SignEatsIntoZeroPaddingWitness ==
  /\ ret.printf = <<9>>
  /\ fmt = <<"[", "%", "0", "7", "d", "]">>
  /\ args = <<I(-1234)>>
  /\ stdout = <<"[", "-", "0", "0", "1", "2", "3", "4", "]">>

AltHexZero ==
  /\ ret.printf # <<>>
  /\ fmt = <<"[", "%", "#", "x", "]">>
  /\ args = <<I(0)>>

\* C10 as it reads: "[%#x]" with 0 prints "[0]", with no radix prefix.
AltHexZeroHasNoPrefix ==
  AltHexZero => stdout = <<"[", "0", "]">>

\* C10 amended: alternate-form hex adds its radix prefix (0x or 0X) to every
\* text that has a digit, that of the value zero included: "[%#x]" with 0
\* prints "[0x0]".
AltHexAlwaysHasPrefix ==
  /\ AltHexZero => stdout = <<"[", "0", "x", "0", "]">>
  /\ (IntCase /\ given.letter \in {<<"x">>, <<"X">>}
        /\ "#" \in Range(given.flags) /\ HasDigit(Field)) =>
       \E i \in 1..(Len(Field) - 1) :
         /\ Field[i] = "0" /\ Field[i + 1] = given.letter[1]
         /\ \A j \in 1..(i - 1) : Field[j] = " "

\* "[%#x]" with 0 has printed "[0x0]".
AltHexAlwaysHasPrefixWitness ==
  /\ AltHexZero
  /\ ret.printf = <<5>>
  /\ stdout = <<"[", "0", "x", "0", "]">>

----------------------------------------------------------------------------
(* Fields: width, justification, strings (specification SpecField).        *)

\* A conversion of a one-specifier format has just printed its field through
\* simple_printf.
FieldCase ==
  /\ last.op \in {"int", "c", "s"} /\ last.call = "file"
  /\ given.kind = "one"

\* The text of the conversion just made, before it is put in its field.
ConvText ==
  CASE last.op = "int" ->
         convert_integer_to_string(get_integer(conv, given.value[1]), conv).txt
    [] last.op = "c" -> <<given.value[1].c>>
    [] last.op = "s" ->
         SubSeq(given.value[1].s, 1, string_length(conv, given.value[1].s))
    [] OTHER -> <<>>

\* The field is written as left-justified: a '-' flag, or a negative '*'.
GivenLeft ==
  \/ "-" \in Range(given.flags)
  \/ given.width.kind = "star" /\ given.width.n < 0

\* C11: a conversion whose text has length n, in a field of width w, emits
\* max(n, w) characters: the text, whole, with w - n spaces after it if the
\* field is left-justified and before it otherwise.
FieldIsJustified ==
  FieldCase =>
    /\ Len(Field) = Max(Len(ConvText), GivenWidth)
    /\ Field = IF GivenLeft
                 THEN ConvText \o Repeat(" ", Len(Field) - Len(ConvText))
                 ELSE Repeat(" ", Len(Field) - Len(ConvText)) \o ConvText

\* The same for the widths a short holds (below 2^15).
ShortFieldIsJustified ==
  (given.kind = "one" /\ GivenWidth < 2 ^ 15) => FieldIsJustified

\* What a plain %p prints for the pointer a.
PlainPointer ==
  diouxXp_descriptor([conv_init EXCEPT !.type = "p", !.length = kLengthVoidP])
PlainPointerText(a) ==
  convert_integer_to_string(get_unsigned_integer(PlainPointer, a),
                            PlainPointer).txt

\* A %p written with no flag, width or precision has just been printed.
PointerCase ==
  /\ last.op = "int" /\ last.call = "file"
  /\ given.kind = "one"
  /\ given.letter # <<>> /\ Head(given.letter) = "p"
  /\ given.flags = <<>> /\ given.width = None /\ given.prec = None

\* C12: %p prints its pointer as a plain %p does (all of its bits, lowercase
\* hex with "0x"), whatever length modifier is written before the p and
\* whatever character follows it, another p included.
PointerIgnoresLengthModifier ==
  PointerCase => Field = PlainPointerText(given.value[1])

\* %p with no length modifier, followed by anything but a 'p', prints all of
\* the pointer.
PlainPointerPrintsWhole ==
  (PointerCase /\ given.length = <<>> /\ given.letter \in {<<"p">>, <<"p", "x">>})
    => Field = PlainPointerText(given.value[1])

----------------------------------------------------------------------------
(* The scan: %n, literal percents, the end of the format (SpecScan).       *)

\* Formats that end inside a specifier: after the '%', after flags, a width,
\* a precision or a length modifier; with and without mapped memory after
\* the terminator.
CutTails ==
  { <<>>, <<"-">>, <<"+", "0">>, <<"5">>, <<".", "3">>, <<"h">>, <<"l", "l">>,
    <<"-", "5", ".", "3", "l">> }

CutInputs ==
  { [fmt   |-> pre \o <<"%">> \o tl, args |-> <<>>, after |-> af, cap |-> MaxCap,
     todo  |-> <<call>>, given |-> [kind |-> "cut"]] :
      pre \in {<<>>, <<"a", "b">>}, tl \in CutTails,
      af \in AfterSet \cup {<<"d">>}, call \in {"printf", "snprintf"} }

InitScan ==
  InitWith(BaseInputs \cup CountInputs \cup PercentInputs \cup CutInputs)
SpecScan == InitScan /\ [][Next]_vars

\* The type the length modifier selects for the pointee of %n holds t.
FitsPointee(length, t) ==
  CASE length = kLengthChar  -> t < 2 ^ (CHAR_BIT - 1)
    [] length = kLengthShort -> t < 2 ^ 15
    [] OTHER                 -> TRUE

\* C13: %n, with any length modifier, stores the running total of the call
\* (for a bounded sink the characters beyond the capacity count too) in its
\* pointee, whenever the pointee's type holds it; it emits nothing and leaves
\* the total as it was.  In "ABCDE%hhn...%tnFGHIJ%hhn...%tn" the first eight
\* store 5 and the next eight 10.
CountStored ==
  /\ last.op = "n" =>
       /\ p.total = last.total
       /\ Len(stdout) = last.out
       /\ stored # <<>>
       /\ stored[Len(stored)].length = conv.length
       /\ FitsPointee(conv.length, last.total) =>
            stored[Len(stored)].value = last.total
  /\ fmt = CountFormat =>
       \A k \in 1..Len(stored) :
         /\ stored[k].value = IF (k - 1) % 16 < 8 THEN 5 ELSE 10
         /\ stored[k].length = CountLengths[((k - 1) % 8) + 1]
         /\ stored[k].id = ((k - 1) % 16) + 1

\* Both calls of the format have returned, the bounded one with capacity 5:
\* 32 counts were stored, the last one 10.
CountStoredWitness ==
  /\ fmt = CountFormat /\ cap = 5
  /\ BothReturned
  /\ Len(stored) = 32
  /\ stored[32].value = 10
  /\ ret.snprintf = <<10>>

\* What the text after a run prints: its %d, when it has one, prints 7.
PostText == IF Len(given.post) = 3 THEN <<"c", "7">> ELSE given.post

\* C14: a run of 2k '%' in a format prints k '%', adds k to the count
\* returned and consumes no argument; "%%%%" prints "%%".
PercentRunHalves ==
  /\ last.op = "percent" =>
       /\ p.total = last.total + 1
       /\ ap = last.ap
       /\ last.call = "file" => Field = <<"%">>
  /\ given.kind = "run" =>
       /\ \A i \in 1..Len(fetched) :
            fetched[i].spec >= Len(given.pre) + 2 * given.k
       /\ ret.printf # <<>> =>
            /\ stdout = given.pre \o Repeat("%", given.k) \o PostText
            /\ ret.printf = <<Len(given.pre) + given.k + Len(PostText)>>
       /\ ret.snprintf # <<>> =>
            ret.snprintf = <<Len(given.pre) + given.k + Len(PostText)>>

\* "%%%%" has printed "%%" and returned 2.
PercentRunHalvesWitness ==
  /\ fmt = <<"%", "%", "%", "%">>
  /\ stdout = <<"%", "%">>
  /\ ret.printf = <<2>>
  /\ ap = 0

NotSpace(ch) == ch # " "

\* The characters of the argument of a c or s conversion.
GivenChars ==
  IF given.value[1].k = "chr" THEN <<given.value[1].c>> ELSE given.value[1].s

\* C15: the field of a c or s conversion, whatever its width and flags, the
\* '0' flag included, is made of characters of the argument and of spaces:
\* every fill character is a space and no '0' is added.
StringsGetSpacePadding ==
  (FieldCase /\ last.op \in {"c", "s"}) =>
    /\ \A i \in 1..Len(Field) : Field[i] # "0"
    /\ SelectSeq(Field, NotSpace) = ConvText
    /\ \E n \in 0..Len(GivenChars) : ConvText = SubSeq(GivenChars, 1, n)

\* "[%09s]" of "Hello" has printed four spaces and "Hello".
StringsGetSpacePaddingWitness ==
  /\ last.op = "s"
  /\ fmt = <<"[", "%", "0", "9", "s", "]">>
  /\ Field = <<" ", " ", " ", " ", "H", "e", "l", "l", "o">>

\* The precision as the format gives it: a negative '*' argument counts as 0.
GivenPrec ==
  IF given.prec.kind = "star" THEN Max(0, given.prec.n) ELSE given.prec.n

\* The characters %s is to print: the whole string with no precision, its
\* first min(p, length) characters with the precision p.
GivenStringText ==
  SubSeq(given.value[1].s, 1,
         IF given.prec = None THEN Len(given.value[1].s)
                              ELSE Min(GivenPrec, Len(given.value[1].s)))

\* C16: %s prints its argument up to the terminator when no precision is
\* given, and its first min(p, length) characters when the precision p is
\* given; the padding to the width is counted from the characters printed.
StringPrecisionTruncates ==
  (FieldCase /\ last.op = "s") =>
    Field = IF GivenLeft
              THEN GivenStringText
                   \o Repeat(" ", Max(GivenWidth - Len(GivenStringText), 0))
              ELSE Repeat(" ", Max(GivenWidth - Len(GivenStringText), 0))
                   \o GivenStringText

\* The same for the widths and precisions a short holds (below 2^15).
ShortStringPrecisionTruncates ==
  (given.kind = "one" /\ GivenWidth < 2 ^ 15 /\ GivenPrec < 2 ^ 15) =>
    StringPrecisionTruncates

\* The two fields of a format of StarInputs, once both are printed.
FirstHalf == SubSeq(stdout, 1, Len(stdout) \div 2)
SecondHalf == SubSeq(stdout, Len(stdout) \div 2 + 1, Len(stdout))

\* C17: a conversion whose width is a '*' argument prints what the same
\* conversion prints with the width written in the format: a negative
\* argument -w as "-w" (the '-' flag and the width w: the text, then spaces
\* up to w characters, for the widths a short holds), an argument w >= 0 as
\* the digits w.
StarWidthIsWrittenWidth ==
  (given.kind = "pair" /\ ret.printf # <<>>) =>
    /\ Len(stdout) % 2 = 0
    /\ FirstHalf = SecondHalf
    /\ (given.neg /\ given.w > 0 /\ given.w < 2 ^ 15
          /\ "+" \notin Range(given.flags)) =>
         FirstHalf = <<"[">> \o given.text
                     \o Repeat(" ", Max(given.w - Len(given.text), 0))
                     \o <<"]">>

\* "[%*d][%-5d]" with -5, 42, 42 has printed "[42   ][42   ]".
StarWidthIsWrittenWidthWitness ==
  /\ ret.printf = <<14>>
  /\ fmt = <<"[", "%", "*", "d", "]", "[", "%", "-", "5", "d", "]">>
  /\ args = <<I(-5), I(42), I(42)>>
  /\ FirstHalf = <<"[", "4", "2", " ", " ", " ", "]">>
  /\ SecondHalf = FirstHalf

\* C18: a conversion whose precision is a negative '*' argument prints what
\* the same conversion prints with the precision ".0"; without a width that
\* is nothing at all for a string and for the value 0 of d.
NegativeStarPrecIsZeroPrec ==
  (given.kind = "precpair" /\ ret.printf # <<>>) =>
    /\ Len(stdout) % 2 = 0
    /\ FirstHalf = SecondHalf
    /\ (given.width = <<>> /\ (given.letter = "s" \/ given.value = I(0))) =>
         FirstHalf = <<"[", "]">>

\* "[%.*s][%.0s]" with -1, "Hey", "Hey" has printed "[][]".
NegativeStarPrecIsZeroPrecWitness ==
  /\ ret.printf = <<4>>
  /\ fmt = <<"[", "%", ".", "*", "s", "]", "[", "%", ".", "0", "s", "]">>
  /\ args = <<I(-1), S(<<"H", "e", "y">>), S(<<"H", "e", "y">>)>>
  /\ stdout = <<"[", "]", "[", "]">>

\* "[%.*d][%.0d]" with -1, 0, 0 has printed "[][]".
NegativeStarPrecZeroValue ==
  /\ ret.printf = <<4>>
  /\ fmt = <<"[", "%", ".", "*", "d", "]", "[", "%", ".", "0", "d", "]">>
  /\ args = <<I(-1), I(0), I(0)>>
  /\ stdout = <<"[", "]", "[", "]">>

\* C19: for every format, the scan cursor (and the start of the pending
\* literal run) is never past the format's terminator, no read leaves the
\* mapped memory, and no terminator is emitted (so none is counted).
ScanStaysInsideFormat ==
  /\ curr_fmt <= term_fmt
  /\ prev_fmt <= term_fmt
  /\ pc # "fault"
  /\ NUL \notin Range(stdout)

\* The format "ab%" is never printed as "ab%" and its terminator, counted
\* as 4 characters, with the cursor one past the terminator.
TerminatorIsEmitted ==
  ~ (/\ fmt = <<"a", "b", "%">>
     /\ stdout = <<"a", "b", "%", NUL>>
     /\ p.total = 4
     /\ curr_fmt = term_fmt + 1)

\* The format has a '%' after which, up to the terminator, there are only
\* flag, width, precision or length-modifier characters.
InsideSpecifier ==
  \E k \in 0..(term_fmt - 1) :
    /\ At(k) = "%"
    /\ \A i \in (k + 1)..(term_fmt - 1) :
         At(i) \in {"-", "+", " ", "#", "0", ".", "*", "h", "l", "j", "z", "t"}
                   \cup {DecimalText(d)[1] : d \in 0..9}

\* The cursor passes the terminator, a read faults or a terminator is
\* printed only in a format that ends in such a run.
OnlyCutFormatsLeaveTheFormat ==
  ~ScanStaysInsideFormat => InsideSpecifier

----------------------------------------------------------------------------
(* The sign of d and i (SpecInt).                                          *)

\* d or i of a value that has a sign to show: negative, or not negative
\* under the '+' or the space flag.
SignedCase ==
  /\ IntCase
  /\ given.letter \in {<<"d">>, <<"i">>}
  /\ GivenSign # <<>>

\* The rendered text begins with the sign; without a width the text is the
\* whole field.
SignLeads ==
  /\ ConvText # <<>>
  /\ ConvText[1] = GivenSign[1]
  /\ GivenWidth = 0 => Field = ConvText

\* C20: for d and i, every value and every precision, the sign ('-' of a
\* negative value, '+' under the '+' flag, a space under the space flag) is
\* the first character of the rendered text.
SignIsAlwaysEmitted == SignedCase => SignLeads

\* The sign is the first character of every text that has a digit.
SignLeadsTheDigits == (SignedCase /\ HasDigit(Field)) => SignLeads

\* "[%+.0d]" with 0 is never printed as "[]".
PlusZeroHasNoSign ==
  ~ (/\ ret.printf = <<2>>
     /\ fmt = <<"[", "%", "+", ".", "0", "d", "]">>
     /\ args = <<I(0)>>
     /\ stdout = <<"[", "]">>)

----------------------------------------------------------------------------
(* Alternate form under soft precision (SpecInt).                          *)

\* The digits of n >= 0 in a radix, most significant first, from the digit
\* alphabet hd.
RECURSIVE RadixText(_, _, _)
RadixText(n, base, hd) ==
  IF n < base THEN <<hd[n + 1]>>
              ELSE RadixText(n \div base, base, hd) \o <<hd[(n % base) + 1]>>

GivenRadix == IF given.letter = <<"o">> THEN 8 ELSE 16

\* The digits of the value of an o, x or X conversion, as they are read.
GivenRadixDigits ==
  RadixText(IntOfWord(given.value[1].w), GivenRadix,
            hex_digits(given.letter = <<"X">>))

\* The radix prefix of the alternate form: "0x" or "0X", and for octal the
\* "0" that a text not already starting with '0' is given.
GivenPrefix ==
  CASE given.letter = <<"x">> -> <<"0", "x">>
    [] given.letter = <<"X">> -> <<"0", "X">>
    [] GivenZero              -> <<>>
    [] OTHER                  -> <<"0">>

\* The value is below 2^31, so that its digits can be worked out here.
GivenBelowSignBit ==
  /\ given.value[1].w[1] = 0 /\ given.value[1].w[2] = 0
  /\ given.value[1].w[3] < 2 ^ 15

\* o, x or X with the '#' and '0' flags, a width written as digits that the
\* scratch buffer holds, no precision and no '-'.
AltSoftCase ==
  /\ IntCase
  /\ GivenBelowSignBit
  /\ given.letter \in {<<"o">>, <<"x">>, <<"X">>}
  /\ "#" \in Range(given.flags) /\ "0" \in Range(given.flags)
  /\ "-" \notin Range(given.flags)
  /\ given.width.kind = "digits"
  /\ given.width.n >= 1 /\ given.width.n <= INT_BUF_SIZE - 1
  /\ given.prec = None

\* The field is the prefix, zeros, and the digits, max(w, natural length)
\* characters in all.
ZeroFilled(prefix, digits, w) ==
  Field = prefix
          \o Repeat("0", Max(w, Len(prefix) + Len(digits))
                         - Len(prefix) - Len(digits))
          \o digits

\* C21: with '#' on o, x or X under soft precision (the '0' flag, a width w
\* of 1 to 47, no precision, no '-') the field is max(w, natural length)
\* characters long: the radix prefix, zeros, the digits, and no space.
AltSoftFieldIsZeroFilled ==
  AltSoftCase => ZeroFilled(GivenPrefix, GivenRadixDigits, given.width.n)

\* The same for x and X, and for the value 0 of o in a width below 47.
AltSoftHexIsZeroFilled ==
  (AltSoftCase /\ (given.letter # <<"o">>
                    \/ (GivenZero /\ given.width.n <= INT_BUF_SIZE - 2))) =>
    ZeroFilled(GivenPrefix, GivenRadixDigits, given.width.n)

\* "[%#08o]" with 255 is never printed as "[ 0000377]".
AltSoftOctalIsShort ==
  ~ (/\ ret.printf = <<10>>
     /\ fmt = <<"[", "%", "#", "0", "8", "o", "]">>
     /\ args = <<I(255)>>
     /\ stdout = <<"[", " ", "0", "0", "0", "0", "3", "7", "7", "]">>)

----------------------------------------------------------------------------
(* The renderer and its scratch buffer (SpecRender).                       *)

\* 64-bit values: 0, 1, the largest, the most negative, and some between.
WideValues ==
  { <<0, 0, 0, 0>>, <<0, 0, 0, 1>>, <<0, 0, 0, 255>>, <<0, 0, 1, 57920>>,
    <<32767, 65535, 65535, 65535>>, <<32768, 0, 0, 0>>,
    <<65535, 65535, 65535, 65535>>, <<4660, 22136, 37035, 52719>> }

\* Precisions around the scratch capacity, the largest a short holds, and
\* some a short does not hold.
LargePrecs ==
  {None, Dot, Dec(1), Dec(2 ^ 15 - 1), Dec(2 ^ 15), Dec(2 ^ 16 - 1),
   Dec(2 ^ 16 + INT_BUF_SIZE + 2), Star(2 ^ 15 - 1), Star(2 ^ 16 + 1)}
  \cup {Dec(n) : n \in (INT_BUF_SIZE - 4)..(INT_BUF_SIZE + MaxOver)}

\* Every integer conversion of 64-bit values with precisions and zero-filled
\* widths up to and beyond the scratch capacity.
RenderInputs ==
  { One(fl, None, pr, <<"l", "l">>, <<t>>, <<W(v)>>, <<>>, <<"printf">>) :
      fl \in {<<>>, <<"#">>, <<"+">>, <<" ">>},
      pr \in LargePrecs, t \in IntLetters, v \in WideValues }
  \cup
  { One(fl, Dec(w), None, <<"l", "l">>, <<t>>, <<W(v)>>, <<>>, <<"printf">>) :
      fl \in {<<"0">>, <<"#", "0">>, <<"+", "0">>},
      w \in ((INT_BUF_SIZE - 4)..(INT_BUF_SIZE + MaxOver)) \cup {2 ^ 15 - 1},
      t \in IntLetters, v \in WideValues }
  \cup
  { One(<<>>, None, pr, <<>>, <<"p">>, <<P(v)>>, <<>>, <<"printf">>) :
      pr \in LargePrecs, v \in WideValues }
  \cup
  { One(<<>>, None, None, <<>>, <<t>>, <<I(v)>>, <<>>, <<"printf">>) :
      t \in IntLetters,
      v \in {0, 9, 10, -1, 2 ^ 30 + (2 ^ 30 - 1), -(2 ^ 30) - (2 ^ 30)} }
  \cup
  { One(fl, Dec(w), None, <<>>, <<"d">>, <<I(42)>>, <<>>, <<"printf">>) :
      fl \in {<<>>, <<"-">>},
      w \in {1, 2 ^ 15 - 1, 2 ^ 15, 2 ^ 16 - 1, 2 ^ 16, 2 ^ 16 + INT_BUF_SIZE} }

\* Ints around the limits of a char, a short and an int.
NarrowValues ==
  { 0, 1, 127, 128, 255, 256, 300, -1, -128, -129, 2 ^ 15 - 1, 2 ^ 15,
    2 ^ 16 - 1, 2 ^ 16, 70000, -(2 ^ 15), -(2 ^ 15) - 1, 305419896, -19088744,
    2 ^ 30 + (2 ^ 30 - 1), -(2 ^ 30) - (2 ^ 30) }

\* Every integer conversion with hh, h and no length modifier.
NarrowInputs ==
  { One(<<>>, None, None, ln, <<t>>, <<I(v)>>, <<>>, <<"printf">>) :
      ln \in {<<"h", "h">>, <<"h">>, <<>>},
      t \in IntLetters, v \in NarrowValues }

InitRender == InitWith(BaseInputs \cup RenderInputs \cup NarrowInputs)
SpecRender == InitRender /\ [][Next]_vars

\* An integer conversion of a one-specifier format has just been printed.
RenderCase == last.op = "int" /\ given.kind = "one"

\* What convert_integer_to_string returned for the conversion just printed.
Rendered ==
  convert_integer_to_string(get_integer(conv, given.value[1]), conv)

\* The rendering r lies in the scratch buffer: every write was at an index
\* from r.idx up, r.idx is 0 to 47, and the text has at most 47 characters.
InScratch(r) ==
  /\ r.idx >= 0 /\ r.idx <= INT_BUF_SIZE - 1
  /\ Len(r.txt) = INT_BUF_SIZE - 1 - r.idx
  /\ given.width = None => Field = r.txt

\* C22: for every integer conversion, value, flags and precision (explicit or
\* soft, however large) the renderer writes inside its 48-byte scratch buffer
\* only: the start index it returns is 0 to 47 and the text, with zeros,
\* prefix and sign, has at most 47 characters.
RenderStaysInScratch == RenderCase => InScratch(Rendered)

\* "[%#.50llx]" of 2^64 - 1 has printed "0x", 29 zeros and 16 f: 47
\* characters from index 0.
RenderStaysInScratchWitness ==
  /\ RenderCase
  /\ given.flags = <<"#">> /\ given.prec = Dec(INT_BUF_SIZE + 2)
  /\ given.letter = <<"x">>
  /\ given.value = <<W(<<65535, 65535, 65535, 65535>>)>>
  /\ Len(Field) = INT_BUF_SIZE - 1
  /\ SubSeq(Field, 1, 3) = <<"0", "x", "0">>
  /\ Field[INT_BUF_SIZE - 1] = "f"

----------------------------------------------------------------------------
(* Reading the digits back (SpecRender).                                   *)

\* w * base + d on 64 bits, or Overflow when it does not fit.
Overflow == <<>>
MulAdd(w, base, d) ==
  LET c4 == w[4] * base + d
      c3 == w[3] * base + (c4 \div LIMB)
      c2 == w[2] * base + (c3 \div LIMB)
      c1 == w[1] * base + (c2 \div LIMB)
  IN  IF c1 >= LIMB THEN Overflow
                    ELSE <<c1, c2 % LIMB, c3 % LIMB, c4 % LIMB>>

\* The value of the digit c in a radix: its place in the alphabet hd, or
\* base when c is not a digit of the radix.
DigitOf(c, base, hd) ==
  IF \E k \in 1..base : hd[k] = c THEN (CHOOSE k \in 1..base : hd[k] = c) - 1
                                  ELSE base

\* The word that the digits of text, most significant first, denote, having
\* read acc so far; Overflow when a character is no digit or 64 bits do not
\* hold the number.
RECURSIVE ReadBack(_, _, _, _)
ReadBack(text, base, hd, acc) ==
  IF text = <<>> \/ acc = Overflow THEN acc
  ELSE IF DigitOf(Head(text), base, hd) = base THEN Overflow
  ELSE ReadBack(Tail(text), base, hd,
                MulAdd(acc, base, DigitOf(Head(text), base, hd)))

\* a + b is 0 on 64 bits: b is the magnitude of the negative a.
SumIsZero(a, b) ==
  LET c4 == a[4] + b[4]
      c3 == a[3] + b[3] + (c4 \div LIMB)
      c2 == a[2] + b[2] + (c3 \div LIMB)
      c1 == a[1] + b[1] + (c2 \div LIMB)
  IN  c4 % LIMB = 0 /\ c3 % LIMB = 0 /\ c2 % LIMB = 0 /\ c1 % LIMB = 0

\* The argument as the 64-bit value the conversion is of: an int is
\* sign-extended for d and i.
GivenWide ==
  IF given.length = <<>> /\ given.letter \in {<<"d">>, <<"i">>}
    THEN WordOfInt(IntOfWord(given.value[1].w))
    ELSE given.value[1].w

\* text has a digit, no leading zero unless it is "0", and reads back as m.
Denotes(text, base, hd, m) ==
  /\ text # <<>>
  /\ Len(text) > 1 => Head(text) # "0"
  /\ ReadBack(text, base, hd, WZero) = m

\* text is the rendering of the 64-bit value v: for a signed conversion of
\* a v with its sign bit set, '-' and digits that denote a magnitude m with
\* v + m = 0; otherwise digits that denote v.
RendersValue(text, signed, v, base, hd) ==
  IF signed /\ SignBitSet(v)
    THEN /\ text # <<>> /\ Head(text) = "-"
         /\ Denotes(Tail(text), base, hd, ReadBack(Tail(text), base, hd, WZero))
         /\ ReadBack(Tail(text), base, hd, WZero) # Overflow
         /\ SumIsZero(v, ReadBack(Tail(text), base, hd, WZero))
    ELSE Denotes(text, base, hd, v)

\* An integer conversion with no flags, width or precision.
PlainCase ==
  /\ RenderCase
  /\ given.letter \in {<<t>> : t \in IntLetters}
  /\ given.flags = <<>> /\ given.width = None /\ given.prec = None

\* C23: with no flags, width or precision the digits printed for a value
\* read back, in the radix and the alphabet of the conversion, as its
\* magnitude, with no leading zero ("0" for zero); d and i print a negative
\* value as '-' and the digits of its magnitude, the most negative value
\* included.  The value is the argument as its size category holds it (hh
\* and h, which narrow an int, are the matter of C24).
DigitsRoundTrip ==
  (PlainCase /\ given.length \notin {<<"h", "h">>, <<"h">>}) =>
    RendersValue(Field, given.letter \in {<<"d">>, <<"i">>}, GivenWide,
                 CASE given.letter = <<"o">> -> 8
                   [] given.letter \in {<<"x">>, <<"X">>} -> 16
                   [] OTHER -> 10,
                 hex_digits(given.letter = <<"X">>))

\* "[%lld]" of -2^63 has printed "[-9223372036854775808]".
DigitsRoundTripWitness ==
  /\ PlainCase
  /\ given.letter = <<"d">>
  /\ given.value = <<W(<<32768, 0, 0, 0>>)>>
  /\ Field = <<"-", "9", "2", "2", "3", "3", "7", "2", "0", "3", "6", "8",
               "5", "4", "7", "7", "5", "8", "0", "8">>

\* "[%llX]" of 0x1234567890abcdef has printed "[1234567890ABCDEF]".
DigitsRoundTripCaps ==
  /\ PlainCase
  /\ given.letter = <<"X">>
  /\ Field = <<"1", "2", "3", "4", "5", "6", "7", "8", "9", "0", "A", "B",
               "C", "D", "E", "F">>

----------------------------------------------------------------------------
(* Narrowing to the size category (SpecRender).                            *)

\* The number of bits of the size category of hh, h and no modifier.
GivenBits ==
  CASE given.length = <<"h", "h">> -> CHAR_BIT
    [] given.length = <<"h">>      -> 2 * CHAR_BIT
    [] OTHER                       -> 4 * CHAR_BIT

\* v reduced modulo 2^16 and modulo 2^bits, for bits <= 16.
LowLimb(v, bits) == (v % LIMB) % (2 ^ Min(bits, 16))

\* v modulo 2^bits as a 64-bit word, for bits of 8, 16 or 32.
UnsignedWord(v, bits) ==
  <<0, 0, IF bits > 16 THEN (v \div LIMB) % LIMB ELSE 0, LowLimb(v, bits)>>

\* v modulo 2^bits read as a two's-complement number of that many bits, as
\* a 64-bit word.
SignedWord(v, bits) ==
  IF bits > 16
    THEN WordOfInt(v)
    ELSE WordOfInt(IF LowLimb(v, bits) >= 2 ^ (bits - 1)
                     THEN LowLimb(v, bits) - 2 ^ bits
                     ELSE LowLimb(v, bits))

\* An integer conversion of an int with hh, h or no length modifier and no
\* flags, width or precision.
NarrowCase ==
  /\ PlainCase
  /\ given.length \in {<<"h", "h">>, <<"h">>, <<>>}

\* C24: with hh (h) an int v is printed by d and i as v modulo 2^8 (2^16)
\* read as a two's-complement value, and by u, o, x, X as v modulo 2^8
\* (2^16); with no modifier u, o, x, X print v modulo 2^32, so a negative
\* int shows 32 bits.
FetcherNarrows ==
  NarrowCase =>
    RendersValue(Field, given.letter \in {<<"d">>, <<"i">>},
                 IF given.letter \in {<<"d">>, <<"i">>}
                   THEN SignedWord(IntOfWord(given.value[1].w), GivenBits)
                   ELSE UnsignedWord(IntOfWord(given.value[1].w), GivenBits),
                 CASE given.letter = <<"o">> -> 8
                   [] given.letter \in {<<"x">>, <<"X">>} -> 16
                   [] OTHER -> 10,
                 hex_digits(given.letter = <<"X">>))

\* "[%hhd]" of 300 has printed "[44]".
FetcherNarrowsWitness ==
  /\ NarrowCase
  /\ given.length = <<"h", "h">> /\ given.letter = <<"d">>
  /\ given.value = <<I(300)>>
  /\ Field = <<"4", "4">>

\* "[%hd]" of 32768 has printed "[-32768]".
FetcherNarrowsShort ==
  /\ NarrowCase
  /\ given.length = <<"h">> /\ given.letter = <<"d">>
  /\ given.value = <<I(2 ^ 15)>>
  /\ Field = <<"-", "3", "2", "7", "6", "8">>

\* "[%x]" of -1 has printed "[ffffffff]".
FetcherNarrowsInt ==
  /\ NarrowCase
  /\ given.length = <<>> /\ given.letter = <<"x">>
  /\ given.value = <<I(-1)>>
  /\ Field = <<"f", "f", "f", "f", "f", "f", "f", "f">>

\* "[%hhx]" of -129 has printed "[7f]".
FetcherNarrowsChar ==
  /\ NarrowCase
  /\ given.length = <<"h", "h">> /\ given.letter = <<"x">>
  /\ given.value = <<I(-129)>>
  /\ Field = <<"7", "f">>

----------------------------------------------------------------------------
(* A '%' in the place of the conversion letter (SpecParse).                *)

\* A one-specifier format whose letter is '%', after at least one flag,
\* width, precision or length-modifier character.
PercentLetterCase ==
  /\ given.kind = "one"
  /\ given.letter = <<"%">>
  /\ GivenText # <<"%", "%">>

\* No '*' stands in the specifier.
GivenNoStar == given.width.kind # "star" /\ given.prec.kind # "star"

\* C25: a '%' met as the conversion letter after a flag, a width, a
\* precision or a length modifier is a failed conversion, never a literal
\* percent: the specifier is printed as it is written, "%l%d" prints the
\* four characters "%l%d" and no argument is consumed; only "%%" prints a
\* single '%'.
PercentLetterFails ==
  /\ PercentLetterCase =>
       /\ last.op # "percent"
       /\ last.op = "fail" =>
            /\ Field = GivenText
            /\ \A k \in 1..Len(fetched) : fetched[k].role # "value"
            /\ GivenNoStar => ap = 0
       /\ ret.printf # <<>> => stdout = fmt
  /\ (given.kind = "pct" /\ given.mods # <<>>) =>
       /\ last.op # "percent" /\ last.op # "int"
       /\ ap = 0 /\ fetched = <<>>
       /\ ret.printf # <<>> => (stdout = fmt /\ ret.printf = <<Len(fmt)>>)
       /\ ret.snprintf # <<>> => ret.snprintf = <<Len(fmt)>>
  /\ (given.kind = "pct" /\ given.mods = <<>> /\ ret.printf # <<>>) =>
       /\ stdout = <<"%", "d">>
       /\ ap = 0
  /\ (given.kind = "one" /\ GivenText = <<"%", "%">> /\ ret.printf # <<>>) =>
       stdout = <<"[", "%", "]">>

\* "%l%d" with 42 has printed "%l%d" and returned 4, no argument fetched.
PercentLetterFailsWitness ==
  /\ fmt = <<"%", "l", "%", "d">>
  /\ args = <<I(42)>>
  /\ ret.printf = <<4>>
  /\ stdout = <<"%", "l", "%", "d">>
  /\ ap = 0

----------------------------------------------------------------------------
(* Where soft precision does not apply (SpecField).                        *)

\* The number of characters of f that are in the set cs.
CountIn(f, cs) == Cardinality({i \in 1..Len(f) : f[i] \in cs})

\* The precision as it is written: 1 when there is none.
WrittenPrec(pr) ==
  CASE pr.kind = "none"   -> 1
    [] pr.kind = "dot"    -> 0
    [] pr.kind = "star"   -> Max(pr.n, 0)
    [] OTHER              -> pr.n

\* The number of digits of the value v >= 0 in the radix of the letter t: 0
\* for the value 0.
NaturalDigits(v, t) ==
  IF v = 0 THEN 0
  ELSE Len(RadixText(v, CASE t = "o" -> 8 [] t = "x" -> 16 [] OTHER -> 10,
                     hex_digits(FALSE)))

\* The field f between its brackets is digits, at most one sign, and
\* spaces: as many digits as the precision asks for, or the value needs,
\* and spaces up to the width.
DigitsFollowPrecision(f, digits, w) ==
  /\ Head(f) = "[" /\ f[Len(f)] = "]"
  /\ CountIn(f, Range(hex_digits(FALSE))) = digits
  /\ CountIn(f, {"+", "-"}) <= 1
  /\ Len(f) - 2 = Max(w, digits + CountIn(f, {"+", "-"}))
  /\ CountIn(f, {" "}) = Len(f) - 2 - digits - CountIn(f, {"+", "-"})

\* C26: an integer conversion with an explicit precision, the '-' flag or a
\* negative '*' width prints with the '0' flag what it prints without it;
\* (without '#') its digits number what the precision asks for, 1 by
\* default, or what the value needs, and the field is filled to the width
\* with spaces.
ZeroFlagAddsNothing ==
  (given.kind = "zeropair" /\ ret.printf # <<>>) =>
    /\ Len(stdout) % 2 = 0
    /\ FirstHalf = SecondHalf
    /\ ("#" \notin Range(given.flags) /\ (given.value >= 0 \/ given.letter = "d")) =>
         DigitsFollowPrecision(FirstHalf,
           Max(WrittenPrec(given.prec),
               NaturalDigits(Abs(given.value), given.letter)),
           Abs(given.width.n))

\* "[%0-7d][%-7d]" with 42, 42 has printed "[42     ][42     ]".
ZeroFlagAddsNothingWitness ==
  /\ ret.printf = <<18>>
  /\ fmt = <<"[", "%", "0", "-", "7", "d", "]", "[", "%", "-", "7", "d", "]">>
  /\ args = <<I(42), I(42)>>
  /\ FirstHalf = <<"[", "4", "2", " ", " ", " ", " ", " ", "]">>
  /\ SecondHalf = FirstHalf

\* "[%07.5d][%7.5d]" with -1234, -1234 has printed "[ -01234][ -01234]".
ZeroFlagWithPrecision ==
  /\ ret.printf = <<18>>
  /\ fmt = <<"[", "%", "0", "7", ".", "5", "d", "]",
             "[", "%", "7", ".", "5", "d", "]">>
  /\ args = <<I(-1234), I(-1234)>>
  /\ FirstHalf = <<"[", " ", "-", "0", "1", "2", "3", "4", "]">>

----------------------------------------------------------------------------
(* Each specifier has its own descriptor (SpecParse).                      *)

\* The last n characters of stdout.
LastOf(n) == SubSeq(stdout, Len(stdout) - n + 1, Len(stdout))

\* C27: every '%' specifier starts from a descriptor that is all false and
\* zero with radix 10, and what a specifier prints does not depend on the
\* specifier before it: after any first specifier the second one prints
\* what it prints alone.
DescriptorIsFresh ==
  /\ last.op = "find" => conv = conv_init
  /\ (given.kind = "leak" /\ ret.printf # <<>>) =>
       /\ Len(stdout) >= Len(given.text) + 2
       /\ LastOf(Len(given.text) + 2) = <<"[">> \o given.text \o <<"]">>

\* "[%-#0+8.5llX][%d]" with 255, 42 has printed "[0X000FF ][42]".
DescriptorIsFreshWitness ==
  /\ ret.printf = <<14>>
  /\ fmt = <<"[", "%", "-", "#", "0", "+", "8", ".", "5", "l", "l", "X", "]",
             "[", "%", "d", "]">>
  /\ stdout = <<"[", "0", "X", "0", "0", "0", "F", "F", " ", "]",
                "[", "4", "2", "]">>

----------------------------------------------------------------------------
(* %s of arrays without a terminator (SpecString).                         *)

\* What may lie after an array: nothing that is mapped, or a character and
\* a terminator.
RestSet == {<<>>, <<"z", NUL>>}

Hello == <<"H", "e", "l", "l", "o">>

\* %s with a precision p, of an array of at least p characters that holds
\* no terminator, and of terminated strings shorter and longer than p.
StringInputs ==
  { One(fl, w, pr, <<>>, <<"s">>, <<A(Hello, rest)>>, <<>>, <<"printf">>) :
      fl \in {<<>>, <<"-">>}, w \in {None, Dec(7)},
      pr \in {Dot, Dec(0), Dec(1), Dec(3), Dec(5), Star(5), Star(0), Star(-1)},
      rest \in RestSet }
  \cup
  { One(<<>>, None, pr, <<>>, <<"s">>, <<S(v)>>, <<>>, <<"printf">>) :
      pr \in {Dot, Dec(3), Dec(5), Dec(6), Dec(9), Dec(2 ^ 15), Dec(2 ^ 16)},
      v \in {Hello, <<>>} }
  \cup
  { One(<<>>, None, Dec(n), <<>>, <<"s">>, <<A(Repeat("a", n), rest)>>, <<>>,
        <<"printf">>) :
      n \in {2 ^ 15 - 1, 2 ^ 15}, rest \in RestSet }

InitString == InitWith(BaseInputs \cup StringInputs)
SpecString == InitString /\ [][Next]_vars

\* %s with an explicit precision, of an argument that is terminated or is an
\* array of at least as many characters as the precision.
StringCase ==
  /\ given.kind = "one"
  /\ given.letter = <<"s">> /\ given.length = <<>>
  /\ given.prec # None
  /\ given.value[1].k = "arr" => Len(given.value[1].s) >= GivenPrec

\* The memory the string argument points to.
GivenMem ==
  IF given.value[1].k = "arr" THEN given.value[1].s \o given.value[1].rest
                              ELSE given.value[1].s \o <<NUL>>

\* No read runs off the argument, and once %s has printed, it has read at
\* most the first n characters of the argument and printed at most n of
\* them.
ReadWithin(n) ==
  /\ pc # "fault"
  /\ last.op = "s" =>
       /\ array_read(conv, GivenMem) <= n
       /\ CountIn(Field, Range(GivenMem) \ {" "}) <= n
       /\ Len(Field) <= Max(GivenWidth, n)

\* C28: %s with an explicit precision p reads and prints at most the first
\* p characters of its argument: an array with no terminator in its first p
\* characters is printed without a read past index p - 1.
StringReadIsBounded == StringCase => ReadWithin(GivenPrec)

\* The same for the precisions a short holds.
ShortStringReadIsBounded ==
  (StringCase /\ GivenPrec < 2 ^ 15) => ReadWithin(GivenPrec)

\* "[%.5s]" of the array "Hello", with no terminator and nothing mapped
\* after it, has printed "[Hello]".
ArrayIsPrinted ==
  /\ ret.printf = <<7>>
  /\ given.kind = "one" /\ given.prec = Dec(5)
  /\ given.value = <<A(Hello, <<>>)>>
  /\ stdout = <<"[">> \o Hello \o <<"]">>

----------------------------------------------------------------------------
(* Widths and precisions of any magnitude (SpecRender).                    *)

\* The limit up to which the number written is asked to be kept.
StoredUpTo(limit) ==
  /\ (given.kind = "one" /\ last.op = "width" /\ given.width.kind = "digits"
        /\ given.width.n < limit) =>
       conv.width = given.width.n
  /\ (given.kind = "one" /\ last.op = "prec" /\ given.prec.kind = "digits"
        /\ given.prec.n < limit) =>
       conv.prec = given.prec.n
  /\ (RenderCase /\ given.width.kind = "digits" /\ given.width.n < limit) =>
       Len(Field) >= given.width.n
  /\ (RenderCase /\ given.prec.kind = "digits"
        /\ given.prec.n >= INT_BUF_SIZE - 1 /\ given.prec.n < limit
        /\ "#" \notin Range(given.flags)) =>
       /\ Len(Field) = INT_BUF_SIZE - 1
       /\ CountIn(Field, Range(hex_digits(FALSE)) \cup Range(hex_digits(TRUE)))
            >= INT_BUF_SIZE - 2

\* C29: the descriptor holds the width and the precision as the decimal
\* number written, of any magnitude: a conversion with width w prints at
\* least w characters, and an integer precision of 47 or more prints the
\* capped text of 47 characters.  (No number written is 2^30 or more.)
DescriptorHoldsTheNumber == StoredUpTo(2 ^ 30)

\* The same for the numbers a short holds.
DescriptorHoldsShortNumbers == StoredUpTo(2 ^ 15)

\* "[%.32768llu]" never prints a field of one character.
LargePrecisionIsLost ==
  ~ (/\ RenderCase
     /\ given.prec = Dec(2 ^ 15) /\ given.letter = <<"u">>
     /\ given.flags = <<>>
     /\ Len(Field) = 1)

\* "[%65536d]" with 42 is never printed as "[42]".
LargeWidthIsLost ==
  ~ (/\ ret.printf = <<4>>
     /\ given.kind = "one" /\ given.width = Dec(2 ^ 16)
     /\ stdout = <<"[", "4", "2", "]">>)

-----------------------------------------------------------------------------
(* The full engine against the first variant, simple_printf_v1.c. *)

MaxPieces == 2

\* ints for %d: zero, one digit, powers of ten and their neighbours, both
\* ends of int.
V1Values == {0, 7, -1, 10, -10, 99999, 100000, -65536, 1000000000,
             2 ^ 30 + (2 ^ 30 - 1), -(2 ^ 30) - (2 ^ 30)}

\* The pieces of a format of the first variant: literal characters (letters
\* that are conversion characters elsewhere included), %%, %s and %d, each
\* with the arguments it consumes.
V1Pieces ==
  { [f |-> lit, a |-> <<>>] : lit \in {<<"a", "d">>, <<" ">>} }
  \cup { [f |-> <<"%", "%">>, a |-> <<>>] }
  \cup { [f |-> <<"%", "s">>, a |-> <<S(s)>>] :
           s \in {<<>>, <<"H", "e", "y">>, <<"%", "d">>} }
  \cup { [f |-> <<"%", "d">>, a |-> <<I(v)>>] : v \in V1Values }

\* The formats of at most n pieces, with their argument lists.
RECURSIVE V1Formats(_)
V1Longer(shorter) ==
  shorter \cup { [f |-> x.f \o piece.f, a |-> x.a \o piece.a] :
                   x \in shorter, piece \in V1Pieces }
V1Formats(n) ==
  IF n = 0 THEN {[f |-> <<>>, a |-> <<>>]} ELSE V1Longer(V1Formats(n - 1))

\* Both variants called on the same format and arguments, the full engine
\* first.
V1Inputs ==
  { [fmt |-> x.f, args |-> x.a, after |-> <<>>, cap |-> 4,
     todo |-> <<"printf", "v1">>, given |-> [kind |-> "v1"]] :
      x \in V1Formats(MaxPieces) }

InitV1 == InitWith(BaseInputs \cup V1Inputs)
SpecV1 == InitV1 /\ [][Next]_vars

\* What the full engine printed, and what the first variant printed after
\* it.
EngineText == SubSeq(stdout, 1, last.out)
V1Text == SubSeq(stdout, last.out + 1, Len(stdout))
BothVariantsReturned == last.op = "v1" /\ given.kind = "v1"

\* C30: on a format built only from literal characters, %%, %s and %d,
\* with matching arguments, the full engine prints exactly the text that
\* the first variant prints.
EngineMatchesFirstVariant == BothVariantsReturned => EngineText = V1Text

\* Both have printed the most negative int after a string.
EngineMatchesFirstVariantWitness ==
  /\ BothVariantsReturned
  /\ fmt = <<"%", "s", "%", "d">>
  /\ args = <<S(<<"H", "e", "y">>), I(-(2 ^ 30) - (2 ^ 30))>>
  /\ ret.printf = <<14>>
  /\ V1Text = <<"H", "e", "y", "-", "2", "1", "4", "7", "4", "8", "3", "6",
                "4", "8">>

====
